---- MODULE Spec2Model ----
(***************************************************************************)
(* Model of the anytime pmnk-landscapes library: the rMNK evaluator, the   *)
(* solution dominance test, the non-dominated archive, the incremental     *)
(* hypervolume object (hvobj) and the GSEMO, PLS and IBEA runners.         *)
(*                                                                         *)
(* Conventions.                                                            *)
(*  - C++ vectors are sequences; C++ index k is sequence position k + 1.   *)
(*    Bit indices stored in the links tables keep their 0-based value.     *)
(*  - double values are modelled by integers.  Table entries are integer   *)
(*    multiples of N, so that the division by N in evalNK is exact.        *)
(*  - a decision vector is a sequence over {0, 1}.                         *)
(*  - a solution is a record with fields dec (decision vector) and obj     *)
(*    (objective vector); the archive machine adds a mark field telling    *)
(*    the solution object passed to the running call from the members      *)
(*    that were stored before it.                                          *)
(*  - every machine of the module (archive, hv, run, eval, dom) has its    *)
(*    own Init, Next and specification; variables a machine does not use   *)
(*    keep the value Init gave them.                                       *)
(***************************************************************************)
EXTENDS Integers, Sequences, FiniteSets, TLC

VARIABLES
  mode,                     \* the machine the behaviour belongs to
  inst,                     \* RMNKEval: rho is not modelled; N, M, K, links, tables
  m_solutions,              \* the archive of the runner (or of the archive machine)
  m_non_visited_solutions,  \* the PLS frontier
  m_hv,                     \* hvobj::m_hv
  m_set,                    \* hvobj::m_set
  m_ref,                    \* hvobj::m_ref
  m_anytime,                \* the anytime log
  cfg,                      \* arguments of run()
  pc,                       \* position of the runner
  loc,                      \* local variables of run() / m_loop() / m_run()
  call                      \* the last call and its result (history of the call)

vars == << mode, inst, m_solutions, m_non_visited_solutions, m_hv, m_set, m_ref,
           m_anytime, cfg, pc, loc, call >>

(***************************************************************************)
(* Bounds of the model.                                                    *)
(***************************************************************************)
\* objective values of the enumerated instances are 0..MaxVal
MaxVal == 1
\* coordinates of the points handed to the hypervolume object
MaxCoord == 2

(***************************************************************************)
(* Generic helpers on sequences.                                           *)
(***************************************************************************)
Range(s) == { s[k] : k \in 1..Len(s) }

RECURSIVE SumSeq(_)
SumSeq(s) == IF s = << >> THEN 0 ELSE Head(s) + SumSeq(Tail(s))

RECURSIVE ProdSeq(_)
ProdSeq(s) == IF s = << >> THEN 1 ELSE Head(s) * ProdSeq(Tail(s))

Min2(a, b) == IF a < b THEN a ELSE b

\* std::vector::pop_back
PopBack(s) == SubSeq(s, 1, Len(s) - 1)

\* mutant of SwapRemove: the last element is dropped without being moved to i
SwapRemoveLast(s, i) == PopBack(s)

\* s[i] = std::move(s.back()); s.pop_back();   (i is a sequence position)
SwapRemove(s, i) == PopBack([s EXCEPT ![i] = s[Len(s)]])

\* all sequences over S of length n
SeqsOfLen(S, n) == [1..n -> S]

(***************************************************************************)
(* rMNKEval.hpp                                                            *)
(***************************************************************************)
\* a | b on unsigned integers
RECURSIVE BitOr(_, _)
BitOr(a, b) ==
  IF a = 0 THEN b
  ELSE IF b = 0 THEN a
  ELSE (IF (a % 2 = 1) \/ (b % 2 = 1) THEN 1 ELSE 0) + 2 * BitOr(a \div 2, b \div 2)

\* mutant of SigmaLoop: the j-th linked bit occupies bit K - j
RECURSIVE SigmaLoopReversed(_, _, _, _, _, _)
SigmaLoopReversed(I, numObj, sol, i, j, st) ==
  IF j >= I.K + 1 THEN st.accu
  ELSE SigmaLoopReversed(I, numObj, sol, i, j + 1,
         [ accu |-> IF sol[I.links[numObj + 1][i + 1][I.K - j + 1] + 1] = 1
                    THEN BitOr(st.accu, st.n) ELSE st.accu,
           n    |-> st.n * 2 ])

\* the loop of RMNKEval::sigma from iteration j on, with the loop variables n and
\* accu; init() allocates 1 << (K + 1) table entries, so K + 1 < 31 and n << 1
\* never leaves the 32 bits of unsigned
RECURSIVE SigmaLoop(_, _, _, _, _, _)
SigmaLoop(I, numObj, sol, i, j, st) ==
  IF j >= I.K + 1 THEN st.accu
  ELSE SigmaLoop(I, numObj, sol, i, j + 1,
         [ accu |-> IF sol[I.links[numObj + 1][i + 1][j + 1] + 1] = 1
                    THEN BitOr(st.accu, st.n) ELSE st.accu,
           n    |-> st.n * 2 ])

\* RMNKEval::sigma(_numObj, _sol, _i), all three 0-based as in the source
sigma(I, numObj, sol, i) == SigmaLoop(I, numObj, sol, i, 0, [accu |-> 0, n |-> 1])

\* RMNKEval::evalNK
evalNK(I, numObj, sol) ==
  SumSeq([ i \in 1..I.N |-> I.tables[numObj + 1][i][sigma(I, numObj, sol, i - 1) + 1] ])
    \div I.N

\* RMNKEval::eval: the objective vector of a decision vector
Eval(I, sol) == [ n \in 1..I.M |-> evalNK(I, n - 1, sol) ]

\* solution::solution(rmnk, decision)
Solution(I, dec) == [ dec |-> dec, obj |-> Eval(I, dec) ]

Decisions(I) == SeqsOfLen({0, 1}, I.N)

(***************************************************************************)
(* solution.hpp: solution::dominance                                       *)
(***************************************************************************)
\* mutant of DominanceLoop: a smaller component after a larger one makes the
\* result dominated
RECURSIVE DominanceLoopLastWins(_, _, _, _)
DominanceLoopLastWins(a, b, i, res) ==
  IF i > Len(a) THEN res
  ELSE IF a[i] < b[i]
       THEN DominanceLoopLastWins(a, b, i + 1, "dominated")
       ELSE IF a[i] > b[i]
            THEN IF res = "dominated" THEN "incomparable"
                 ELSE DominanceLoopLastWins(a, b, i + 1, "dominates")
            ELSE DominanceLoopLastWins(a, b, i + 1, res)

\* the loop of solution::dominance over objective index i (position), res so far
RECURSIVE DominanceLoop(_, _, _, _)
DominanceLoop(a, b, i, res) ==
  IF i > Len(a) THEN res
  ELSE IF a[i] < b[i]
       THEN IF res = "dominates" THEN "incomparable"
            ELSE DominanceLoop(a, b, i + 1, "dominated")
       ELSE IF a[i] > b[i]
            THEN IF res = "dominated" THEN "incomparable"
                 ELSE DominanceLoop(a, b, i + 1, "dominates")
            ELSE DominanceLoop(a, b, i + 1, res)

\* mutant of dominance: the first component that differs decides
dominanceFirstDifference(a, b) ==
  IF a = b THEN "equal"
  ELSE LET k == CHOOSE i \in 1..Len(a) : a[i] # b[i] /\ \A j \in 1..(i - 1) : a[j] = b[j]
       IN IF a[k] > b[k] THEN "dominates" ELSE "dominated"

\* a.dominance(b) on the objective vectors
dominance(a, b) == DominanceLoop(a, b, 1, "equal")

(***************************************************************************)
(* utils.hpp: add_non_dominated                                            *)
(***************************************************************************)
\* mutant of AddWalk: a member the new solution dominates is stepped over
\* instead of being removed
RECURSIVE AddWalkNoPrune(_, _, _)
AddWalkNoPrune(S, s, i) ==
  IF i > Len(S) THEN [ set |-> Append(S, s), ret |-> TRUE ]
  ELSE LET d == dominance(s.obj, S[i].obj) IN
    IF d = "equal" THEN
      IF s.dec = S[i].dec THEN [ set |-> S, ret |-> FALSE ]
      ELSE IF \E k \in (i + 1)..Len(S) : s.dec = S[k].dec
           THEN [ set |-> S, ret |-> FALSE ]
           ELSE [ set |-> Append(S, s), ret |-> TRUE ]
    ELSE IF d = "dominated" THEN [ set |-> S, ret |-> FALSE ]
    ELSE AddWalkNoPrune(S, s, i + 1)

\* mutant of AddWalk: a solution with the decision vector of a member
\* overwrites that member before false is returned
RECURSIVE AddWalkOverwrite(_, _, _)
AddWalkOverwrite(S, s, i) ==
  IF i > Len(S) THEN [ set |-> Append(S, s), ret |-> TRUE ]
  ELSE LET d == dominance(s.obj, S[i].obj) IN
    IF d = "equal" THEN
      IF s.dec = S[i].dec THEN [ set |-> [ S EXCEPT ![i] = s ], ret |-> FALSE ]
      ELSE IF \E k \in (i + 1)..Len(S) : s.dec = S[k].dec
           THEN [ set |-> S, ret |-> FALSE ]
           ELSE [ set |-> Append(S, s), ret |-> TRUE ]
    ELSE IF d = "dominates" THEN AddWalkOverwrite(SwapRemove(S, i), s, i)
    ELSE IF d = "dominated" THEN [ set |-> S, ret |-> FALSE ]
    ELSE AddWalkOverwrite(S, s, i + 1)

\* mutant of AddWalk: a member that dominates the new solution is stepped over
RECURSIVE AddWalkKeepDominated(_, _, _)
AddWalkKeepDominated(S, s, i) ==
  IF i > Len(S) THEN [ set |-> Append(S, s), ret |-> TRUE ]
  ELSE LET d == dominance(s.obj, S[i].obj) IN
    IF d = "equal" THEN
      IF s.dec = S[i].dec THEN [ set |-> S, ret |-> FALSE ]
      ELSE IF \E k \in (i + 1)..Len(S) : s.dec = S[k].dec
           THEN [ set |-> S, ret |-> FALSE ]
           ELSE [ set |-> Append(S, s), ret |-> TRUE ]
    ELSE IF d = "dominates" THEN AddWalkKeepDominated(SwapRemove(S, i), s, i)
    ELSE AddWalkKeepDominated(S, s, i + 1)

\* mutant of AddWalk: a call that removes a dominated member returns false
\* without appending the new solution
RECURSIVE AddWalkPruneAndReject(_, _, _)
AddWalkPruneAndReject(S, s, i) ==
  IF i > Len(S) THEN [ set |-> Append(S, s), ret |-> TRUE ]
  ELSE LET d == dominance(s.obj, S[i].obj) IN
    IF d = "equal" THEN
      IF s.dec = S[i].dec THEN [ set |-> S, ret |-> FALSE ]
      ELSE IF \E k \in (i + 1)..Len(S) : s.dec = S[k].dec
           THEN [ set |-> S, ret |-> FALSE ]
           ELSE [ set |-> Append(S, s), ret |-> TRUE ]
    ELSE IF d = "dominates" THEN [ set |-> SwapRemove(S, i), ret |-> FALSE ]
    ELSE IF d = "dominated" THEN [ set |-> S, ret |-> FALSE ]
    ELSE AddWalkPruneAndReject(S, s, i + 1)

\* the walk of add_non_dominated from position i on; the result holds the
\* container after the call and the value returned
RECURSIVE AddWalk(_, _, _)
AddWalk(S, s, i) ==
  IF i > Len(S) THEN [ set |-> Append(S, s), ret |-> TRUE ]
  ELSE LET d == dominance(s.obj, S[i].obj) IN
    IF d = "equal" THEN
      IF s.dec = S[i].dec THEN [ set |-> S, ret |-> FALSE ]
      ELSE IF \E k \in (i + 1)..Len(S) : s.dec = S[k].dec
           THEN [ set |-> S, ret |-> FALSE ]
           ELSE [ set |-> Append(S, s), ret |-> TRUE ]
    ELSE IF d = "dominates" THEN AddWalk(SwapRemove(S, i), s, i)
    ELSE IF d = "dominated" THEN [ set |-> S, ret |-> FALSE ]
    ELSE AddWalk(S, s, i + 1)

add_non_dominated(S, s) == AddWalk(S, s, 1)

(***************************************************************************)
(* wfg.hpp: class hvobj                                                    *)
(***************************************************************************)
\* std::numeric_limits<hv_type>::max(), the sentinel of m_set_hv3d
HvTypeMax == 1000000

\* hvobj::m_weakly_dominates: a[1..] >= b[1..] (coordinate 0 is left out)
m_weakly_dominates(a, b) == \A i \in 2..Len(a) : ~(a[i] < b[i])

\* std::remove_if + erase on the positions from..Len(set): the elements that
\* satisfy m_weakly_dominates(by, .) go, the others keep their order
RECURSIVE EraseDominated(_, _, _)
EraseDominated(set, from, by) ==
  IF from > Len(set) THEN set
  ELSE IF m_weakly_dominates(by, set[from])
       THEN EraseDominated(SubSeq(set, 1, from - 1) \o SubSeq(set, from + 1, Len(set)),
                           from, by)
       ELSE EraseDominated(set, from + 1, by)

\* first loop of m_insert_non_dominated (elements whose coordinate 0 is larger):
\* the position it stops at, or 0 when it returns without inserting
RECURSIVE InsertSkipGreater(_, _, _)
InsertSkipGreater(v, set, it) ==
  IF it <= Len(set) /\ set[it][1] > v[1]
  THEN IF m_weakly_dominates(set[it], v) THEN 0
       ELSE InsertSkipGreater(v, set, it + 1)
  ELSE it

\* third part of m_insert_non_dominated: v has been swapped into position it,
\* aux is carried down the vector from position jt on
RECURSIVE InsertShift(_, _, _, _)
InsertShift(set, it, jt, aux) ==
  IF jt > Len(set)
  THEN IF ~m_weakly_dominates(set[it], aux) THEN Append(set, aux) ELSE set
  ELSE IF m_weakly_dominates(set[it], aux)
       THEN EraseDominated(set, jt, set[it])
       ELSE InsertShift([set EXCEPT ![jt] = aux], it, jt + 1, set[jt])

\* second loop of m_insert_non_dominated (elements with the same coordinate 0)
\* followed by the third part
RECURSIVE InsertEqual(_, _, _)
InsertEqual(v, set, it) ==
  IF it <= Len(set) /\ set[it][1] = v[1]
  THEN IF m_weakly_dominates(set[it], v) THEN set
       ELSE IF m_weakly_dominates(v, set[it])
            THEN EraseDominated([set EXCEPT ![it] = v], it + 1, v)
            ELSE InsertEqual(v, set, it + 1)
  ELSE IF it > Len(set) THEN Append(set, v)
       ELSE InsertShift([set EXCEPT ![it] = v], it, it + 1, set[it])

\* hvobj::m_insert_non_dominated(v, set): the set after the call
m_insert_non_dominated(v, set) ==
  LET it == InsertSkipGreater(v, set, 1)
  IN  IF it = 0 THEN set ELSE InsertEqual(v, set, it)

\* mutant of Clamp: the stored point is not limited by v
ClampNone(p, v) == p

\* min(aux[i], v[i]) for every i
Clamp(p, v) == [ i \in 1..Len(p) |-> Min2(p[i], v[i]) ]

\* hvobj::m_limit_set(s, v)
RECURSIVE LimitSetLoop(_, _, _, _)
LimitSetLoop(s, v, k, res) ==
  IF k > Len(s) THEN res
  ELSE LimitSetLoop(s, v, k + 1, m_insert_non_dominated(Clamp(s[k], v), res))

m_limit_set(s, v) == LimitSetLoop(s, v, 1, << >>)

\* hvobj::m_point_hv(v, r)
RECURSIVE PointHvLoop(_, _, _, _)
PointHvLoop(v, r, i, res) ==
  IF i > Len(v) THEN res ELSE PointHvLoop(v, r, i + 1, res * (v[i] - r[i]))

m_point_hv(v, r) == PointHvLoop(v, r, 2, v[1] - r[1])

\* std::lower_bound(aux, tmp, x[1] > y[1]): first position whose second
\* component is not larger than tmp's
RECURSIVE LowerBound(_, _, _)
LowerBound(aux, tmp, k) ==
  IF k <= Len(aux) /\ aux[k][2] > tmp[2] THEN LowerBound(aux, tmp, k + 1) ELSE k

\* the inner loop of m_set_hv3d: advances it over the staircase boxes tmp
\* covers, accumulating the area; st = [it, a, r0, r1]
RECURSIVE Hv3dAbsorb(_, _, _)
Hv3dAbsorb(aux, tmp, st) ==
  IF aux[st.it][1] <= tmp[1]
  THEN Hv3dAbsorb(aux, tmp,
         [ it |-> st.it + 1,
           a  |-> st.a + (tmp[1] - st.r0) * (st.r1 - aux[st.it][2]),
           r0 |-> aux[st.it][1],
           r1 |-> aux[st.it][2] ])
  ELSE st

\* the sweep of m_set_hv3d over the points from position k on; st = [v, a, z, aux]
RECURSIVE Hv3dLoop(_, _, _, _)
Hv3dLoop(s, r, k, st) ==
  IF k > Len(s) THEN st.v + st.a * (st.z - r[1])
  ELSE LET p   == s[k]
           v1  == st.v + st.a * (st.z - p[1])
           tmp == << p[2], p[3] >>
           jt  == LowerBound(st.aux, tmp, 1)
           ab  == Hv3dAbsorb(st.aux, tmp,
                    [ it |-> jt, a |-> st.a, r0 |-> st.aux[jt - 1][1], r1 |-> tmp[2] ])
           a1  == ab.a + (tmp[1] - ab.r0) * (ab.r1 - st.aux[ab.it][2])
           aux1 == IF jt # ab.it
                   THEN SubSeq(st.aux, 1, jt - 1) \o << tmp >>
                          \o SubSeq(st.aux, ab.it, Len(st.aux))
                   ELSE SubSeq(st.aux, 1, jt - 1) \o << tmp >>
                          \o SubSeq(st.aux, jt, Len(st.aux))
       IN Hv3dLoop(s, r, k + 1, [ v |-> v1, a |-> a1, z |-> p[1], aux |-> aux1 ])

\* hvobj::m_set_hv3d(s, r)
m_set_hv3d(s, r) ==
  Hv3dLoop(s, r, 1,
    [ v |-> 0, a |-> 0, z |-> 0,
      aux |-> << << r[2], HvTypeMax >>, << HvTypeMax, r[3] >> >> ])

\* mutant of Hv2dLoop: r1 is not advanced to the last seen p[1]
RECURSIVE Hv2dLoopFixedR1(_, _, _, _)
Hv2dLoopFixedR1(s, r, k, st) ==
  IF k > Len(s) THEN st.v
  ELSE Hv2dLoopFixedR1(s, r, k + 1,
         [ v |-> st.v + (s[k][2] - st.r1) * (s[k][1] - r[1]), r1 |-> st.r1 ])

\* the two-dimensional sweep of m_set_hv; st = [v, r1]
RECURSIVE Hv2dLoop(_, _, _, _)
Hv2dLoop(s, r, k, st) ==
  IF k > Len(s) THEN st.v
  ELSE Hv2dLoop(s, r, k + 1,
         [ v |-> st.v + (s[k][2] - st.r1) * (s[k][1] - r[1]), r1 |-> s[k][2] ])

\* hvobj::m_set_hv(s, r, c); HvNdLoop is its loop for more than 3 dimensions,
\* st = [v, newl]
RECURSIVE m_set_hv(_, _, _)
RECURSIVE HvNdLoop(_, _, _, _, _)
HvNdLoop(s, r, c, k, st) ==
  IF k > Len(s) THEN st.v
  ELSE LET p    == s[k]
           newr == Tail(r)
           newc == c * (p[1] - r[1])
           newp == Tail(p)
       IN HvNdLoop(s, r, c, k + 1,
            [ v    |-> st.v + newc * m_point_hv(newp, newr)
                         - m_set_hv(m_limit_set(st.newl, newp), newr, newc),
              newl |-> m_insert_non_dominated(newp, st.newl) ])

m_set_hv(s, r, c) ==
  IF Len(s) = 0 THEN 0
  ELSE IF Len(s[1]) = 2 THEN Hv2dLoop(s, r, 1, [ v |-> 0, r1 |-> r[2] ]) * c
  ELSE IF Len(s[1]) = 3 THEN c * m_set_hv3d(s, r)
  ELSE HvNdLoop(s, r, c, 1, [ v |-> 0, newl |-> << >> ])

\* hvobj::contribution(v) on the object [hv, set, ref]
contribution(h, v) == m_point_hv(v, h.ref) - m_set_hv(m_limit_set(h.set, v), h.ref, 1)

\* mutant of insert: the point is stored and the contribution is not added
insertNoAdd(h, v) ==
  LET hvc == contribution(h, v)
  IN  IF hvc # 0
      THEN [ h   |-> [ h EXCEPT !.set = m_insert_non_dominated(v, h.set) ],
             ret |-> hvc ]
      ELSE [ h |-> h, ret |-> hvc ]

\* mutant of insert: the contribution is subtracted
insertSubtract(h, v) ==
  LET hvc == contribution(h, v)
  IN  IF hvc # 0
      THEN [ h   |-> [ h EXCEPT !.set = m_insert_non_dominated(v, h.set),
                                !.hv = h.hv - hvc ],
             ret |-> hvc ]
      ELSE [ h |-> h, ret |-> hvc ]

\* mutant of insert: the contribution replaces the stored hypervolume
insertOverwrite(h, v) ==
  LET hvc == contribution(h, v)
  IN  IF hvc # 0
      THEN [ h   |-> [ h EXCEPT !.set = m_insert_non_dominated(v, h.set),
                                !.hv = hvc ],
             ret |-> hvc ]
      ELSE [ h |-> h, ret |-> hvc ]

\* hvobj::insert(v): the object after the call and the value returned
insert(h, v) ==
  LET hvc == contribution(h, v)
  IN  IF hvc # 0
      THEN [ h   |-> [ h EXCEPT !.set = m_insert_non_dominated(v, h.set),
                                !.hv = h.hv + hvc ],
             ret |-> hvc ]
      ELSE [ h |-> h, ret |-> hvc ]

\* std::find(m_set.begin(), m_set.end(), v): position of the first match, or 0
FindPos(set, v) ==
  IF \E k \in 1..Len(set) : set[k] = v
  THEN CHOOSE k \in 1..Len(set) : set[k] = v /\ \A j \in 1..(k - 1) : set[j] # v
  ELSE 0

\* mutant of remove: the point is erased and the value is kept
removeKeepValue(h, v) ==
  LET it == FindPos(h.set, v)
  IN  IF it = 0 THEN [ h |-> h, ret |-> -1 ]
      ELSE LET erased == [ h EXCEPT !.set = SubSeq(h.set, 1, it - 1)
                                              \o SubSeq(h.set, it + 1, Len(h.set)) ]
           IN [ h |-> erased, ret |-> contribution(erased, v) ]

\* hvobj::remove(v): the object after the call and the value returned
remove(h, v) ==
  LET it == FindPos(h.set, v)
  IN  IF it = 0 THEN [ h |-> h, ret |-> -1 ]
      ELSE LET erased == [ h EXCEPT !.set = SubSeq(h.set, 1, it - 1)
                                              \o SubSeq(h.set, it + 1, Len(h.set)) ]
               hvc    == contribution(erased, v)
           IN [ h |-> [ erased EXCEPT !.hv = erased.hv - hvc ], ret |-> hvc ]

\* hvobj::hvobj(r) and the object held in the variables m_hv, m_set, m_ref
hvobj(r) == [ hv |-> 0, set |-> << >>, ref |-> r ]
m_hvo == [ hv |-> m_hv, set |-> m_set, ref |-> m_ref ]

(***************************************************************************)
(* Values of the variables a machine does not use.                         *)
(***************************************************************************)
NoInstance == [ N |-> 0, M |-> 0, K |-> 0, links |-> << >>, tables |-> << >> ]
NoCfg == [ algo |-> "none" ]
NoLoc == [ evaluation |-> 0 ]
NoCall == [ op |-> "none" ]

(***************************************************************************)
(* Instances.  MkInstance(N, M, K, T) is the instance in which the        *)
(* contribution of position 0 of objective m to a bitstring x is          *)
(* N * T[m][sigma] and every other position contributes 0, with           *)
(* links[m][i] = (i, i + 1, ..., i + K) mod N.  With K = N - 1 every map   *)
(* from bitstrings to objective vectors is the objective function of such  *)
(* an instance.                                                            *)
(***************************************************************************)
RECURSIVE Pow2(_)
Pow2(n) == IF n = 0 THEN 1 ELSE 2 * Pow2(n - 1)

MkInstance(N, M, K, T) ==
  [ N |-> N, M |-> M, K |-> K,
    links  |-> [ m \in 1..M |-> [ i \in 1..N |-> [ j \in 1..(K + 1) |->
                   ((i - 1) + (j - 1)) % N ] ] ],
    tables |-> [ m \in 1..M |-> [ i \in 1..N |-> [ s \in 1..Pow2(K + 1) |->
                   IF i = 1 THEN N * T[m][s] ELSE 0 ] ] ] ]

\* every instance with 2 bits and 2 objectives whose objective values are 0..MaxVal
SmallInstances ==
  { MkInstance(2, 2, 1, T) : T \in [ 1..2 -> [ 1..4 -> 0..MaxVal ] ] }

\* an instance with 3 bits whose bitstrings 000, 100, 010, 110, 001 (bit 0
\* first) evaluate to (3,1), (2,2), (1,3), (2,1), (3,3)
ScenarioInstance ==
  MkInstance(3, 2, 2, << << 3, 2, 1, 2, 3, 1, 1, 0 >>, << 1, 2, 3, 1, 3, 1, 2, 0 >> >>)

ArchiveInstances == SmallInstances \cup { ScenarioInstance }

(***************************************************************************)
(* The archive machine: add_non_dominated called again and again on an     *)
(* archive that starts empty, with solutions of one instance.              *)
(***************************************************************************)
Unmark(S) == [ k \in 1..Len(S) |-> [ S[k] EXCEPT !.mark = FALSE ] ]

ArchiveInit ==
  /\ mode = "archive"
  /\ inst \in ArchiveInstances
  /\ m_solutions = << >>
  /\ m_non_visited_solutions = << >>
  /\ m_hv = 0 /\ m_set = << >> /\ m_ref = << >>
  /\ m_anytime = << >>
  /\ cfg = NoCfg /\ pc = "idle" /\ loc = NoLoc
  /\ call = NoCall

\* one call add_non_dominated(m_solutions, solution(eval, dec))
ArchiveAdd ==
  /\ mode = "archive"
  /\ \E dec \in Decisions(inst) :
       LET before == Unmark(m_solutions)
           s == [ dec |-> dec, obj |-> Eval(inst, dec), mark |-> TRUE ]
           r == add_non_dominated(before, s)
       IN /\ m_solutions' = r.set
          /\ call' = [ op |-> "add", s |-> s, ret |-> r.ret, before |-> before ]
  /\ UNCHANGED << mode, inst, m_non_visited_solutions, m_hv, m_set, m_ref, m_anytime,
                  cfg, pc, loc >>

ArchiveNext == ArchiveAdd

SpecArchive == ArchiveInit /\ [][ArchiveNext]_vars

(***************************************************************************)
(* The hv machine: insert and remove called again and again on an hvobj    *)
(* built with a reference r, with points strictly above r.                 *)
(***************************************************************************)
HvDims == { 2, 3, 4 }

\* the largest offset from the reference, per coordinate
HvExtent(M) ==
  IF M = 2 THEN << MaxCoord + 1, MaxCoord + 1 >>
  ELSE IF M = 3 THEN << MaxCoord, 3, 3 >>
  ELSE [ i \in 1..M |-> 2 ]

HvRefs(M) == { [ i \in 1..M |-> 0 ], [ i \in 1..M |-> i ] }

HvPoints(r) ==
  { p \in [ 1..Len(r) -> 1..(Len(r) + MaxCoord + 3) ] :
      \A i \in 1..Len(r) : p[i] > r[i] /\ p[i] <= r[i] + HvExtent(Len(r))[i] }

HvInit ==
  /\ mode = "hv"
  /\ inst = NoInstance
  /\ m_solutions = << >>
  /\ m_non_visited_solutions = << >>
  /\ m_hv = 0 /\ m_set = << >>
  /\ m_ref \in UNION { HvRefs(M) : M \in HvDims }
  /\ m_anytime = << >>
  /\ cfg = NoCfg /\ pc = "idle" /\ loc = NoLoc
  /\ call = NoCall

HvInsert ==
  /\ mode = "hv"
  /\ \E p \in HvPoints(m_ref) :
       LET r == insert(m_hvo, p)
       IN /\ m_hv' = r.h.hv
          /\ m_set' = r.h.set
  /\ UNCHANGED << mode, inst, m_solutions, m_non_visited_solutions, m_ref, m_anytime,
                  cfg, pc, loc, call >>

HvRemove ==
  /\ mode = "hv"
  /\ \E p \in HvPoints(m_ref) :
       LET r == remove(m_hvo, p)
       IN /\ m_hv' = r.h.hv
          /\ m_set' = r.h.set
  /\ UNCHANGED << mode, inst, m_solutions, m_non_visited_solutions, m_ref, m_anytime,
                  cfg, pc, loc, call >>

HvNext == HvInsert \/ HvRemove

SpecHv == HvInit /\ [][HvNext]_vars

\* the measure of the union of the boxes [r, p], p in S: the number of unit
\* cells (named by their upper corner) that lie inside one of the boxes
SetHypervolume(S, r) ==
  Cardinality({ c \in HvPoints(r) : \E p \in S : \A i \in 1..Len(r) : c[i] <= p[i] })

(***************************************************************************)
(* The run machine: one call of gsemo::run, pls::run or IBEA::run on an    *)
(* object built with a reference that no objective value is below: the     *)
(* default one (the zero vector of length M) or the vector of -1.  A draw  *)
(* from the random generator is a nondeterministic choice.                 *)
(***************************************************************************)
\* maxeval is 0..MaxEval
MaxEval == 3
\* IBEA: population_max_size is 1..MaxPop
MaxPop == 2
\* IBEA: size of the mating pool is 1..MaxPool
MaxPool == 2
\* IBEA: max_generations is 0..MaxGen
MaxGen == 2

\* objective values of the bitstrings 00, 10, 01, 11 (bit 0 first), first
\* objective then second objective
RunTables ==
  { << << 0, 1, 1, 2 >>, << 2, 1, 1, 0 >> >>,
    << << 1, 2, 1, 2 >>, << 1, 1, 2, 2 >> >>,
    << << 2, 1, 3, 1 >>, << 2, 3, 1, 1 >> >>,
    << << 1, 0, 2, 2 >>, << 1, 3, 1, 0 >> >> }

RunInstances == { MkInstance(2, 2, 1, T) : T \in RunTables }

\* the reference points of the runs
RunRefs(M) == { [ i \in 1..M |-> 0 ], [ i \in 1..M |-> -1 ] }

GsemoCfgs ==
  { [ algo |-> "gsemo", maxeval |-> e, acceptance |-> "none", exploration |-> "none",
      pop_max |-> 0, max_generations |-> 0, pool_size |-> 0 ] : e \in 0..MaxEval }

PlsCfgs ==
  { [ algo |-> "pls", maxeval |-> e, acceptance |-> a, exploration |-> x,
      pop_max |-> 0, max_generations |-> 0, pool_size |-> 0 ] :
      e \in 0..MaxEval,
      a \in { "non_dominating", "dominating", "both" },
      x \in { "best_improvement", "first_improvement", "both" } }

IbeaCfgs ==
  { [ algo |-> "ibea", maxeval |-> e, acceptance |-> "none", exploration |-> "none",
      pop_max |-> p, max_generations |-> g, pool_size |-> q ] :
      e \in 0..MaxEval, p \in 1..MaxPop, g \in 0..MaxGen, q \in 1..MaxPool }

\* the local variables of the runners, before the call
Locals ==
  [ evaluation |-> 0, i |-> 0, gen |-> 0, k |-> 0,
    rand_solution |-> << >>, original |-> << >>,
    remaining |-> << >>, use_remaining |-> TRUE, phases |-> << >>,
    population |-> << >>, matting_pool |-> << >> ]

RunInit(cfgs) ==
  /\ mode = "run"
  /\ inst \in RunInstances
  /\ cfg \in cfgs
  /\ m_solutions = << >>
  /\ m_non_visited_solutions = << >>
  /\ m_hv = 0 /\ m_set = << >>
  /\ m_ref \in RunRefs(inst.M)
  /\ m_anytime = << >>
  /\ pc = "start"
  /\ loc = Locals
  /\ call = NoCall

\* decv[i] = !decv[i]   (i is a 0-based bit index)
FlipBit(dec, i) == [ dec EXCEPT ![i + 1] = 1 - dec[i + 1] ]

\* the bits of dec selected by mask are flipped
FlipMask(dec, mask) == [ j \in 1..Len(dec) |-> IF mask[j] = 1 THEN 1 - dec[j] ELSE dec[j] ]

\* the row pushed on m_anytime by gsemo and pls
Row(evaluation, hv) == [ evaluation |-> evaluation, hypervolume |-> hv ]

\* the row pushed on m_anytime by IBEA
GenRow(evaluation, gen, hv) ==
  [ evaluation |-> evaluation, generation |-> gen, hypervolume |-> hv ]

(***************************************************************************)
(* gsemo::run                                                              *)
(***************************************************************************)
\* the initial random solution, its insertion and the first row
GsemoStart ==
  /\ mode = "run" /\ cfg.algo = "gsemo" /\ pc = "start"
  /\ \E dec \in Decisions(inst) :
       LET rand_solution == Solution(inst, dec)
           h == insert(m_hvo, rand_solution.obj).h
           r == add_non_dominated(m_solutions, rand_solution)
       IN /\ m_hv' = h.hv /\ m_set' = h.set
          /\ m_solutions' = r.set
          /\ m_anytime' = Append(m_anytime, Row(0, h.hv))
          /\ loc' = [ loc EXCEPT !.rand_solution = rand_solution, !.i = 0 ]
          /\ call' = [ op |-> "add", s |-> rand_solution, ret |-> r.ret,
                       before |-> m_solutions ]
  /\ pc' = "gsemo_loop"
  /\ UNCHANGED << mode, inst, m_non_visited_solutions, m_ref, cfg >>

\* the loop runs maxeval + 1 times
GsemoLoopCondInclusive == loc.i <= cfg.maxeval

\* the condition of the loop
GsemoLoopCond == loc.i < cfg.maxeval

\* one iteration of the loop: a parent, a child, its insertion
GsemoStep ==
  /\ mode = "run" /\ cfg.algo = "gsemo" /\ pc = "gsemo_loop"
  /\ GsemoLoopCond
  /\ \E index \in 1..Len(m_solutions), mask \in Decisions(inst) :
       LET solution == Solution(inst, FlipMask(m_solutions[index].dec, mask))
           sov == solution.obj
           r == add_non_dominated(m_solutions, solution)
           h == insert(m_hvo, sov).h
       IN /\ m_solutions' = r.set
          /\ IF r.ret
             THEN /\ m_hv' = h.hv /\ m_set' = h.set
                  /\ m_anytime' = Append(m_anytime, Row(loc.i + 1, h.hv))
             ELSE UNCHANGED << m_hv, m_set, m_anytime >>
          /\ call' = [ op |-> "add", s |-> solution, ret |-> r.ret,
                       before |-> m_solutions ]
  /\ loc' = [ loc EXCEPT !.i = loc.i + 1 ]
  /\ UNCHANGED << mode, inst, m_non_visited_solutions, m_ref, cfg, pc >>

\* the loop condition fails and run returns
GsemoReturn ==
  /\ mode = "run" /\ cfg.algo = "gsemo" /\ pc = "gsemo_loop"
  /\ ~GsemoLoopCond
  /\ pc' = "done"
  /\ UNCHANGED << mode, inst, m_solutions, m_non_visited_solutions, m_hv, m_set, m_ref,
                  m_anytime, cfg, loc, call >>

GsemoNext == GsemoStart \/ GsemoStep \/ GsemoReturn

SpecGsemo == RunInit(GsemoCfgs) /\ [][GsemoNext]_vars

\* run is one thread that always takes its next step
FairSpecGsemo == SpecGsemo /\ WF_vars(GsemoNext)

(***************************************************************************)
(* pls::run and pls::m_loop                                                *)
(***************************************************************************)
\* mutant of Phases: every exploration runs one FirstImprov m_loop
PhasesFirstOnly(exploration) == << TRUE >>

\* the values of FirstImprov of the successive calls of m_loop
Phases(exploration) ==
  CASE exploration = "best_improvement" -> << FALSE >>
    [] exploration = "first_improvement" -> << TRUE >>
    [] OTHER -> << TRUE, FALSE >>

\* mutant of FirstImprov: no m_loop breaks out of its loops
FirstImprovNever == FALSE

\* the template parameter FirstImprov of the running m_loop
FirstImprov == Head(loc.phases)

\* the initial random solution, the copy of the frontier and the first row
PlsStart ==
  /\ mode = "run" /\ cfg.algo = "pls" /\ pc = "start"
  /\ \E dec \in Decisions(inst) :
       LET rand_solution == Solution(inst, dec)
           h == insert(m_hvo, rand_solution.obj).h
           r == add_non_dominated(m_non_visited_solutions, rand_solution)
       IN /\ m_hv' = h.hv /\ m_set' = h.set
          /\ m_non_visited_solutions' = r.set
          /\ m_solutions' = r.set
          /\ m_anytime' = Append(m_anytime, Row(0, h.hv))
          /\ loc' = [ loc EXCEPT !.rand_solution = rand_solution, !.evaluation = 0,
                                 !.phases = Phases(cfg.exploration) ]
  /\ pc' = "pls_loop"
  /\ UNCHANGED << mode, inst, m_ref, cfg, call >>

\* the head of the while loop: a random member leaves the frontier
PlsPop ==
  /\ mode = "run" /\ cfg.algo = "pls" /\ pc = "pls_loop"
  /\ loc.evaluation < cfg.maxeval /\ m_non_visited_solutions # << >>
  /\ \E index \in 1..Len(m_non_visited_solutions) :
       /\ loc' = [ loc EXCEPT !.original = m_non_visited_solutions[index],
                              !.i = 0, !.k = 1,
                              !.remaining = << >>, !.use_remaining = TRUE ]
       /\ m_non_visited_solutions' = SwapRemove(m_non_visited_solutions, index)
  /\ pc' = "pls_scan"
  /\ UNCHANGED << mode, inst, m_solutions, m_hv, m_set, m_ref, m_anytime, cfg, call >>

\* the while condition fails: m_loop returns, and run with it after the
\* last m_loop
PlsLoopExit ==
  /\ mode = "run" /\ cfg.algo = "pls" /\ pc = "pls_loop"
  /\ ~(loc.evaluation < cfg.maxeval /\ m_non_visited_solutions # << >>)
  /\ IF Len(loc.phases) > 1
     THEN /\ loc' = [ loc EXCEPT !.phases = Tail(loc.phases) ]
          /\ pc' = "pls_loop"
     ELSE /\ pc' = "done"
          /\ UNCHANGED loc
  /\ UNCHANGED << mode, inst, m_solutions, m_non_visited_solutions, m_hv, m_set, m_ref,
                  m_anytime, cfg, call >>

\* mutant of PlsAccept: the engine is left alone
PlsAcceptNoEngine(solution, archive, evaluation) ==
  /\ m_solutions' = archive
  /\ UNCHANGED << m_hv, m_set >>
  /\ m_non_visited_solutions' = add_non_dominated(m_non_visited_solutions, solution).set
  /\ m_anytime' = Append(m_anytime, Row(evaluation, m_hv))

\* mutant of PlsAccept: the frontier takes the solution by push_back
PlsAcceptAppend(solution, archive, evaluation) ==
  LET h == insert(m_hvo, solution.obj).h
  IN /\ m_solutions' = archive
     /\ m_hv' = h.hv /\ m_set' = h.set
     /\ m_non_visited_solutions' = Append(m_non_visited_solutions, solution)
     /\ m_anytime' = Append(m_anytime, Row(evaluation, h.hv))

\* the archive accepted the solution: engine, frontier and log
PlsAccept(solution, archive, evaluation) ==
  LET h == insert(m_hvo, solution.obj).h
  IN /\ m_solutions' = archive
     /\ m_hv' = h.hv /\ m_set' = h.set
     /\ m_non_visited_solutions' = add_non_dominated(m_non_visited_solutions, solution).set
     /\ m_anytime' = Append(m_anytime, Row(evaluation, h.hv))

\* the loop over the neighbours ignores the budget
PlsScanCondNoBudget == loc.i < Len(loc.original.dec)

\* the condition of the loop over the neighbours of original
PlsScanCond == loc.i < Len(loc.original.dec) /\ loc.evaluation < cfg.maxeval

\* one iteration of the loop over the neighbours of original
PlsNeighbor ==
  /\ mode = "run" /\ cfg.algo = "pls" /\ pc = "pls_scan"
  /\ PlsScanCond
  /\ LET solution == Solution(inst, FlipBit(loc.original.dec, loc.i))
         evaluation == loc.evaluation + 1
         tried == \/ cfg.acceptance = "non_dominating"
                  \/ dominance(solution.obj, loc.original.obj) = "dominates"
         r == add_non_dominated(m_solutions, solution)
         accepted == tried /\ r.ret
         stash == cfg.acceptance = "both" /\ ~accepted /\ loc.use_remaining
     IN /\ IF accepted
           THEN PlsAccept(solution, r.set, evaluation)
           ELSE /\ m_solutions' = IF tried THEN r.set ELSE m_solutions
                /\ UNCHANGED << m_hv, m_set, m_non_visited_solutions, m_anytime >>
        /\ call' = IF tried
                   THEN [ op |-> "add", s |-> solution, ret |-> r.ret, before |-> m_solutions ]
                   ELSE call
        /\ loc' = [ loc EXCEPT
                      !.evaluation = evaluation,
                      !.i = IF accepted /\ FirstImprov THEN loc.i ELSE loc.i + 1,
                      !.use_remaining = IF accepted /\ cfg.acceptance = "both"
                                        THEN FALSE ELSE loc.use_remaining,
                      !.remaining = IF stash
                                    THEN Append(loc.remaining, << solution, evaluation >>)
                                    ELSE loc.remaining ]
        /\ pc' = IF accepted /\ FirstImprov
                 THEN IF cfg.acceptance = "both" THEN "pls_replay" ELSE "pls_loop"
                 ELSE "pls_scan"
  /\ UNCHANGED << mode, inst, m_ref, cfg >>

\* the loop over the neighbours ends on its condition
PlsScanEnd ==
  /\ mode = "run" /\ cfg.algo = "pls" /\ pc = "pls_scan"
  /\ ~PlsScanCond
  /\ pc' = IF cfg.acceptance = "both" THEN "pls_replay" ELSE "pls_loop"
  /\ UNCHANGED << mode, inst, m_solutions, m_non_visited_solutions, m_hv, m_set, m_ref,
                  m_anytime, cfg, loc, call >>

\* mutant of PlsReplay: the stash is replayed whatever use_remaining is
PlsReplayAlways ==
  /\ mode = "run" /\ cfg.algo = "pls" /\ pc = "pls_replay"
  /\ loc.k <= Len(loc.remaining)
  /\ LET solution == loc.remaining[loc.k][1]
         r == add_non_dominated(m_solutions, solution)
     IN /\ IF r.ret
           THEN PlsAccept(solution, r.set, loc.evaluation)
           ELSE /\ m_solutions' = r.set
                /\ UNCHANGED << m_hv, m_set, m_non_visited_solutions, m_anytime >>
        /\ call' = [ op |-> "add", s |-> solution, ret |-> r.ret, before |-> m_solutions ]
        /\ loc' = [ loc EXCEPT !.k = loc.k + 1 ]
        /\ pc' = IF r.ret /\ FirstImprov THEN "pls_loop" ELSE "pls_replay"
  /\ UNCHANGED << mode, inst, m_ref, cfg >>

\* acceptance both: one iteration of the loop over the stashed neighbours
PlsReplay ==
  /\ mode = "run" /\ cfg.algo = "pls" /\ pc = "pls_replay"
  /\ loc.use_remaining /\ loc.k <= Len(loc.remaining)
  /\ LET solution == loc.remaining[loc.k][1]
         r == add_non_dominated(m_solutions, solution)
     IN /\ IF r.ret
           THEN PlsAccept(solution, r.set, loc.evaluation)
           ELSE /\ m_solutions' = r.set
                /\ UNCHANGED << m_hv, m_set, m_non_visited_solutions, m_anytime >>
        /\ call' = [ op |-> "add", s |-> solution, ret |-> r.ret, before |-> m_solutions ]
        /\ loc' = [ loc EXCEPT !.k = loc.k + 1 ]
        /\ pc' = IF r.ret /\ FirstImprov THEN "pls_loop" ELSE "pls_replay"
  /\ UNCHANGED << mode, inst, m_ref, cfg >>

\* acceptance both: no replay, or the replay is over
PlsReplayEnd ==
  /\ mode = "run" /\ cfg.algo = "pls" /\ pc = "pls_replay"
  /\ ~(loc.use_remaining /\ loc.k <= Len(loc.remaining))
  /\ pc' = "pls_loop"
  /\ UNCHANGED << mode, inst, m_solutions, m_non_visited_solutions, m_hv, m_set, m_ref,
                  m_anytime, cfg, loc, call >>

PlsNext ==
  \/ PlsStart \/ PlsPop \/ PlsLoopExit \/ PlsNeighbor \/ PlsScanEnd
  \/ PlsReplay \/ PlsReplayEnd

SpecPls == RunInit(PlsCfgs) /\ [][PlsNext]_vars

\* the loops of pls::run are scheduled by one thread that always takes its
\* next step
FairSpecPls == SpecPls /\ WF_vars(PlsNext)

\* long runs of pls: maxeval is 0..MaxLocalEval
MaxLocalEval == 7

\* every variant of pls::run with maxeval 0..MaxLocalEval
PlsLongCfgs ==
  { [ algo |-> "pls", maxeval |-> e, acceptance |-> a, exploration |-> x,
      pop_max |-> 0, max_generations |-> 0, pool_size |-> 0 ] :
      e \in 0..MaxLocalEval,
      a \in { "non_dominating", "dominating", "both" },
      x \in { "best_improvement", "first_improvement", "both" } }

SpecPlsLong == RunInit(PlsLongCfgs) /\ [][PlsNext]_vars

(***************************************************************************)
(* IBEA::m_run.  The fitness of an individual is a sum of exponentials of  *)
(* indicator values: the model keeps no fitness, and every choice that     *)
(* depends on one (the winner of a tournament, the worst individual) is    *)
(* any individual.  A mutation flips any set of bits, so whatever the      *)
(* crossover leaves in the mating pool, a child is any bitstring.          *)
(***************************************************************************)
\* one iteration of the loop that fills the initial population
IbeaInitStep ==
  /\ mode = "run" /\ cfg.algo = "ibea" /\ pc = "start"
  /\ loc.i < cfg.pop_max /\ loc.evaluation < cfg.maxeval
  /\ \E dec \in Decisions(inst) :
       LET sol == Solution(inst, dec)
           r == add_non_dominated(m_solutions, sol)
           h == insert(m_hvo, sol.obj).h
       IN /\ m_solutions' = r.set
          /\ IF r.ret
             THEN /\ m_hv' = h.hv /\ m_set' = h.set
                  /\ m_anytime' = Append(m_anytime, GenRow(loc.evaluation, loc.gen, h.hv))
             ELSE UNCHANGED << m_hv, m_set, m_anytime >>
          /\ call' = [ op |-> "add", s |-> sol, ret |-> r.ret, before |-> m_solutions ]
          /\ loc' = [ loc EXCEPT !.population = Append(loc.population, sol),
                                 !.evaluation = loc.evaluation + 1,
                                 !.i = loc.i + 1 ]
  /\ UNCHANGED << mode, inst, m_non_visited_solutions, m_ref, cfg, pc >>

\* the initial population is complete, or the budget is spent
IbeaInitEnd ==
  /\ mode = "run" /\ cfg.algo = "ibea" /\ pc = "start"
  /\ ~(loc.i < cfg.pop_max /\ loc.evaluation < cfg.maxeval)
  /\ pc' = "ibea_gen"
  /\ UNCHANGED << mode, inst, m_solutions, m_non_visited_solutions, m_hv, m_set, m_ref,
                  m_anytime, cfg, loc, call >>

\* the head of a generation: selection, crossover, mutation and evaluation
\* build the mating pool
IbeaVariation ==
  /\ mode = "run" /\ cfg.algo = "ibea" /\ pc = "ibea_gen"
  /\ loc.evaluation < cfg.maxeval /\ loc.gen < cfg.max_generations
  /\ \E best \in [ 1..cfg.pool_size -> 1..Len(loc.population) ],
        mask \in [ 1..cfg.pool_size -> Decisions(inst) ] :
       loc' = [ loc EXCEPT
                  !.matting_pool =
                    [ q \in 1..cfg.pool_size |->
                        Solution(inst, FlipMask(loc.population[best[q]].dec, mask[q])) ],
                  !.k = 1 ]
  /\ pc' = "ibea_children"
  /\ UNCHANGED << mode, inst, m_solutions, m_non_visited_solutions, m_hv, m_set, m_ref,
                  m_anytime, cfg, call >>

\* one iteration of the loop that inserts the children
IbeaChild ==
  /\ mode = "run" /\ cfg.algo = "ibea" /\ pc = "ibea_children"
  /\ loc.k <= Len(loc.matting_pool)
  /\ LET individual == loc.matting_pool[loc.k]
         r == add_non_dominated(m_solutions, individual)
         h == insert(m_hvo, individual.obj).h
     IN /\ m_solutions' = r.set
        /\ IF r.ret
           THEN /\ m_hv' = h.hv /\ m_set' = h.set
                /\ m_anytime' = Append(m_anytime, GenRow(loc.evaluation, loc.gen, h.hv))
           ELSE UNCHANGED << m_hv, m_set, m_anytime >>
        /\ call' = [ op |-> "add", s |-> individual, ret |-> r.ret, before |-> m_solutions ]
        /\ loc' = [ loc EXCEPT !.population = Append(loc.population, individual),
                               !.evaluation = loc.evaluation + 1,
                               !.k = loc.k + 1 ]
  /\ UNCHANGED << mode, inst, m_non_visited_solutions, m_ref, cfg, pc >>

\* the populations m_environmental_selection can leave
RECURSIVE EnvironmentalSelection(_, _)
EnvironmentalSelection(population, population_max_size) ==
  IF Len(population) > population_max_size
  THEN UNION { EnvironmentalSelection(SwapRemove(population, worst), population_max_size) :
               worst \in 1..Len(population) }
  ELSE { population }

\* the end of a generation: environmental selection and ++gen
IbeaEnvSelection ==
  /\ mode = "run" /\ cfg.algo = "ibea" /\ pc = "ibea_children"
  /\ ~(loc.k <= Len(loc.matting_pool))
  /\ \E population \in EnvironmentalSelection(loc.population, cfg.pop_max) :
       loc' = [ loc EXCEPT !.population = population, !.matting_pool = << >>,
                           !.gen = loc.gen + 1 ]
  /\ pc' = "ibea_gen"
  /\ UNCHANGED << mode, inst, m_solutions, m_non_visited_solutions, m_hv, m_set, m_ref,
                  m_anytime, cfg, call >>

\* the generation loop ends on its condition: the final row
IbeaFinish ==
  /\ mode = "run" /\ cfg.algo = "ibea" /\ pc = "ibea_gen"
  /\ ~(loc.evaluation < cfg.maxeval /\ loc.gen < cfg.max_generations)
  /\ m_anytime' = Append(m_anytime, GenRow(loc.evaluation, loc.gen, m_hv))
  /\ pc' = "done"
  /\ UNCHANGED << mode, inst, m_solutions, m_non_visited_solutions, m_hv, m_set, m_ref,
                  cfg, loc, call >>

IbeaNext ==
  \/ IbeaInitStep \/ IbeaInitEnd \/ IbeaVariation \/ IbeaChild
  \/ IbeaEnvSelection \/ IbeaFinish

SpecIbea == RunInit(IbeaCfgs) /\ [][IbeaNext]_vars

(***************************************************************************)
(* The three runners together.                                             *)
(***************************************************************************)
RunNext == GsemoNext \/ PlsNext \/ IbeaNext

SpecRun == RunInit(GsemoCfgs \cup PlsCfgs \cup IbeaCfgs) /\ [][RunNext]_vars

(***************************************************************************)
(* The eval machine: RMNKEval::eval called on the bitstrings of a loaded   *)
(* instance.                                                               *)
(***************************************************************************)
\* the contributions of one bit, indexed by sigma, before the scaling by N
TableRows == { << 0, 1, 2, 3 >>, << 1, 0, 0, 1 >>, << 2, 2, 0, 3 >> }

\* instances with 3 bits and K = 1 whose j-th link of bit i is i + c + j * b
\* (mod N), the second objective reading the rows in reverse order; c = 2
\* and b = 1 give links[0][0] = [2, 0]
EvalInstances ==
  { [ N |-> 3, M |-> 2, K |-> 1,
      links  |-> [ m \in 1..2 |-> [ i \in 1..3 |-> [ j \in 1..2 |->
                     ((i - 1) + c + (j - 1) * b) % 3 ] ] ],
      tables |-> [ m \in 1..2 |-> [ i \in 1..3 |-> [ s \in 1..4 |->
                     3 * (IF m = 1 THEN rows[i][s] ELSE rows[4 - i][s]) ] ] ] ] :
    c \in 0..2, b \in 0..2, rows \in [ 1..3 -> TableRows ] }

EvalInit ==
  /\ mode = "eval"
  /\ inst \in EvalInstances
  /\ m_solutions = << >>
  /\ m_non_visited_solutions = << >>
  /\ m_hv = 0 /\ m_set = << >> /\ m_ref = << >>
  /\ m_anytime = << >>
  /\ cfg = NoCfg
  /\ pc = "pick"
  /\ loc = [ _solution |-> [ i \in 1..inst.N |-> 0 ], _objVec |-> << >> ]
  /\ call = NoCall

\* the caller builds a bitstring
EvalPick ==
  /\ mode = "eval" /\ pc = "pick"
  /\ \E x \in Decisions(inst) : loc' = [ _solution |-> x, _objVec |-> << >> ]
  /\ pc' = "call"
  /\ call' = NoCall
  /\ UNCHANGED << mode, inst, m_solutions, m_non_visited_solutions, m_hv, m_set, m_ref,
                  m_anytime, cfg >>

\* RMNKEval::eval(_solution, _objVec)
EvalCall ==
  /\ mode = "eval" /\ pc = "call"
  /\ loc' = [ loc EXCEPT !._objVec = Eval(inst, loc._solution) ]
  /\ call' = [ op |-> "eval", _solution |-> loc._solution ]
  /\ pc' = "pick"
  /\ UNCHANGED << mode, inst, m_solutions, m_non_visited_solutions, m_hv, m_set, m_ref,
                  m_anytime, cfg >>

EvalNext == EvalPick \/ EvalCall

SpecEval == EvalInit /\ [][EvalNext]_vars

(***************************************************************************)
(* The dominance machine: solution::dominance called on two objective      *)
(* vectors of equal length.                                                *)
(***************************************************************************)
\* the vectors have 1..MaxObj objectives
MaxObj == 3

DomVectors(M) == SeqsOfLen(0..MaxCoord, M)

DomInit ==
  /\ mode = "dom"
  /\ inst = NoInstance
  /\ m_solutions = << >>
  /\ m_non_visited_solutions = << >>
  /\ m_hv = 0 /\ m_set = << >> /\ m_ref = << >>
  /\ m_anytime = << >>
  /\ cfg = NoCfg
  /\ pc = "call"
  /\ \E M \in 1..MaxObj : \E a \in DomVectors(M), b \in DomVectors(M) :
       loc = [ a |-> a, b |-> b ]
  /\ call = NoCall

\* a.dominance(b) and b.dominance(a)
DomCall ==
  /\ mode = "dom" /\ pc = "call"
  /\ call' = [ op |-> "dominance", ret |-> dominance(loc.a, loc.b),
               rev |-> dominance(loc.b, loc.a) ]
  /\ pc' = "done"
  /\ UNCHANGED << mode, inst, m_solutions, m_non_visited_solutions, m_hv, m_set, m_ref,
                  m_anytime, cfg, loc >>

DomNext == DomCall

SpecDom == DomInit /\ [][DomNext]_vars

(***************************************************************************)
(* The hvcall machine: contribution, insert and remove called again and    *)
(* again on an hvobj, with points strictly above the reference; call holds *)
(* the running call, its result and the object before it, until the caller *)
(* has taken the result.                                                   *)
(***************************************************************************)
\* the references of the hvcall machine, of dimension 2 and 3
HvcRefs == { << 0, 0 >>, << 1, 0 >>, << 0, 0, 0 >> }

\* the points handed to the calls: up to MaxCoord + 2 above the reference in
\* dimension 2, up to 2 above it in dimension 3
HvcPoints(r) ==
  IF Len(r) = 2
  THEN { p \in [ 1..2 -> 1..(MaxCoord + 3) ] :
           \A i \in 1..2 : p[i] > r[i] /\ p[i] <= r[i] + MaxCoord + 2 }
  ELSE { p \in [ 1..3 -> 1..2 ] : \A i \in 1..3 : p[i] > r[i] }

HvcInit ==
  /\ mode = "hvcall"
  /\ inst = NoInstance
  /\ m_solutions = << >>
  /\ m_non_visited_solutions = << >>
  /\ m_hv = 0 /\ m_set = << >>
  /\ m_ref \in HvcRefs
  /\ m_anytime = << >>
  /\ cfg = NoCfg /\ pc = "idle" /\ loc = NoLoc
  /\ call = NoCall

\* the record of a call of op on v that returned ret
HvcCall(op, v, ret) ==
  [ op |-> op, v |-> v, ret |-> ret, before |-> [ hv |-> m_hv, set |-> m_set ] ]

HvcContribution ==
  /\ mode = "hvcall" /\ pc = "idle"
  /\ \E p \in HvcPoints(m_ref) :
       call' = HvcCall("contribution", p, contribution(m_hvo, p))
  /\ pc' = "returned"
  /\ UNCHANGED << mode, inst, m_solutions, m_non_visited_solutions, m_hv, m_set, m_ref,
                  m_anytime, cfg, loc >>

HvcInsert ==
  /\ mode = "hvcall" /\ pc = "idle"
  /\ \E p \in HvcPoints(m_ref) :
       LET r == insert(m_hvo, p)
       IN /\ m_hv' = r.h.hv
          /\ m_set' = r.h.set
          /\ call' = HvcCall("insert", p, r.ret)
  /\ pc' = "returned"
  /\ UNCHANGED << mode, inst, m_solutions, m_non_visited_solutions, m_ref, m_anytime,
                  cfg, loc >>

HvcRemove ==
  /\ mode = "hvcall" /\ pc = "idle"
  /\ \E p \in HvcPoints(m_ref) :
       LET r == remove(m_hvo, p)
       IN /\ m_hv' = r.h.hv
          /\ m_set' = r.h.set
          /\ call' = HvcCall("remove", p, r.ret)
  /\ pc' = "returned"
  /\ UNCHANGED << mode, inst, m_solutions, m_non_visited_solutions, m_ref, m_anytime,
                  cfg, loc >>

\* the caller takes the result
HvcReturn ==
  /\ mode = "hvcall" /\ pc = "returned"
  /\ call' = NoCall
  /\ pc' = "idle"
  /\ UNCHANGED << mode, inst, m_solutions, m_non_visited_solutions, m_hv, m_set, m_ref,
                  m_anytime, cfg, loc >>

HvcNext == HvcContribution \/ HvcInsert \/ HvcRemove \/ HvcReturn

SpecHvCall == HvcInit /\ [][HvcNext]_vars

(***************************************************************************)
(* The load machine: RMNKEval::RMNKEval(_fileName) reads an instance file  *)
(* and hands the evaluator to a runner, which evaluates a solution.  A     *)
(* file is a sequence of tokens: a word, a number, or a comment line (a    *)
(* line that starts with c).                                               *)
(***************************************************************************)
Word(w) == [ k |-> "word", w |-> w, n |-> 0 ]
Num(n) == [ k |-> "num", w |-> "", n |-> n ]
Comment == [ k |-> "comment", w |-> "c", n |-> 0 ]

\* the value of a member or array cell nothing was ever written to
Indet == -1

\* a file with M = 1, N = 1, K = 0 that follows the format
GoodTokens ==
  << Word("p"), Word("rMNK"), Num(0), Num(1), Num(1), Num(0),
     Word("p"), Word("links"), Num(0),
     Word("p"), Word("tables"), Num(2), Num(3) >>

\* s without its k-th element
DropAt(s, k) == SubSeq(s, 1, k - 1) \o SubSeq(s, k + 1, Len(s))

\* the files: the good one, alone and after a comment line; the good one
\* with one token missing, with one token replaced by the word x, cut after
\* any token, with a link that is not a bit index, with a comment line only;
\* and a file that cannot be opened
LoadFiles ==
  { [ openable |-> TRUE, tokens |-> toks ] :
      toks \in { GoodTokens, << Comment >> \o GoodTokens, << Comment >>,
                 [ GoodTokens EXCEPT ![9] = Num(1) ] }
               \cup { DropAt(GoodTokens, k) : k \in 1..Len(GoodTokens) }
               \cup { [ GoodTokens EXCEPT ![k] = Word("x") ] : k \in 1..Len(GoodTokens) }
               \cup { SubSeq(GoodTokens, 1, k) : k \in 0..(Len(GoodTokens) - 1) } }
  \cup { [ openable |-> FALSE, tokens |-> << >> ] }

\* file >> s on the stream st = [pos, fail]: the stream and s afterwards (a
\* failed or exhausted stream leaves s as it was)
ReadWord(file, st, s) ==
  IF st.fail \/ st.pos > Len(file.tokens)
  THEN [ st |-> [ st EXCEPT !.fail = TRUE ], s |-> s ]
  ELSE [ st |-> [ st EXCEPT !.pos = st.pos + 1 ], s |-> file.tokens[st.pos] ]

\* file >> x for a number x holding old: a failed or exhausted stream leaves
\* x as it was, a token that is no number sets x to 0 and fails the stream
ReadNum(file, st, old) ==
  IF st.fail \/ st.pos > Len(file.tokens)
  THEN [ st |-> [ st EXCEPT !.fail = TRUE ], x |-> old ]
  ELSE IF file.tokens[st.pos].k = "num"
       THEN [ st |-> [ st EXCEPT !.pos = st.pos + 1 ], x |-> file.tokens[st.pos].n ]
       ELSE [ st |-> [ st EXCEPT !.fail = TRUE ], x |-> 0 ]

\* the cells of links or tables in the order loadLinks and loadTables read
\* them: for i, for j, for n; width is the number of values of j
CellOrder(I, width) ==
  [ c \in 1..(I.N * width * I.M) |->
      [ i |-> ((c - 1) \div (width * I.M)) + 1,
        j |-> (((c - 1) \div I.M) % width) + 1,
        n |-> ((c - 1) % I.M) + 1 ] ]

\* the loops of loadLinks and loadTables from cell c on; acc = [st, arr]
RECURSIVE ReadCells(_, _, _, _)
ReadCells(file, order, c, acc) ==
  IF c > Len(order) THEN acc
  ELSE LET at == order[c]
           r  == ReadNum(file, acc.st, acc.arr[at.n][at.i][at.j])
       IN ReadCells(file, order, c + 1,
            [ st |-> r.st, arr |-> [ acc.arr EXCEPT ![at.n][at.i][at.j] = r.x ] ])

\* RMNKEval::init(): arrays of cells nothing was written to; with a parameter
\* nothing was written to there is no telling what is allocated
Init3(I, width) ==
  IF I.M = Indet \/ I.N = Indet \/ I.K = Indet THEN << >>
  ELSE [ n \in 1..I.M |-> [ i \in 1..I.N |-> [ j \in 1..width |-> Indet ] ] ]

\* every parameter was read, every cell was read, every link is a bit index
FullyLoaded(I) ==
  /\ I.M # Indet /\ I.N # Indet /\ I.K # Indet
  /\ I.M >= 1 /\ I.N >= 1
  /\ Len(I.links) = I.M /\ Len(I.tables) = I.M
  /\ \A n \in 1..I.M : \A i \in 1..I.N :
       /\ \A j \in 1..(I.K + 1) : I.links[n][i][j] # Indet /\ I.links[n][i][j] < I.N
       /\ \A j \in 1..Pow2(I.K + 1) : I.tables[n][i][j] # Indet

LoadInit ==
  /\ mode = "load"
  /\ inst = [ N |-> Indet, M |-> Indet, K |-> Indet, links |-> << >>, tables |-> << >> ]
  /\ m_solutions = << >>
  /\ m_non_visited_solutions = << >>
  /\ m_hv = 0 /\ m_set = << >> /\ m_ref = << >>
  /\ m_anytime = << >>
  /\ cfg = NoCfg
  /\ pc = "start"
  /\ \E f \in LoadFiles :
       loc = [ file |-> f, st |-> [ pos |-> 1, fail |-> FALSE ], s |-> Word(""),
               rho |-> Indet, errors |-> 0, objv |-> << >> ]
  /\ call = NoCall

\* file.open and, on success, the first file >> s; a file that cannot be
\* opened is reported on std::cerr and load returns
LoadOpen ==
  /\ mode = "load" /\ pc = "start"
  /\ IF loc.file.openable
     THEN LET r == ReadWord(loc.file, loc.st, loc.s)
          IN /\ loc' = [ loc EXCEPT !.st = r.st, !.s = r.s ]
             /\ pc' = "comments"
     ELSE /\ loc' = [ loc EXCEPT !.errors = @ + 1 ]
          /\ pc' = "loaded"
  /\ UNCHANGED << mode, inst, m_solutions, m_non_visited_solutions, m_hv, m_set, m_ref,
                  m_anytime, cfg, call >>

\* one turn of while (s[0] == 'c'): the rest of the line is dropped and the
\* next word is read; at the end of the file s stays a comment
LoadComment ==
  /\ mode = "load" /\ pc = "comments"
  /\ loc.s.k = "comment"
  /\ LET r == ReadWord(loc.file, loc.st, loc.s)
     IN loc' = [ loc EXCEPT !.st = r.st, !.s = r.s ]
  /\ UNCHANGED << mode, inst, m_solutions, m_non_visited_solutions, m_hv, m_set, m_ref,
                  m_anytime, cfg, pc, call >>

\* the p rMNK header, file >> rho >> M >> N >> K and init(); a wrong header
\* word is reported on std::cerr and the reading goes on
LoadParams ==
  /\ mode = "load" /\ pc = "comments"
  /\ loc.s.k # "comment"
  /\ LET e1 == IF loc.s # Word("p") THEN 1 ELSE 0
         r2 == ReadWord(loc.file, loc.st, loc.s)
         e2 == IF r2.s # Word("rMNK") THEN 1 ELSE 0
         rr == ReadNum(loc.file, r2.st, loc.rho)
         rM == ReadNum(loc.file, rr.st, inst.M)
         rN == ReadNum(loc.file, rM.st, inst.N)
         rK == ReadNum(loc.file, rN.st, inst.K)
         I  == [ inst EXCEPT !.M = rM.x, !.N = rN.x, !.K = rK.x ]
     IN /\ inst' = [ I EXCEPT !.links = Init3(I, I.K + 1),
                               !.tables = Init3(I, Pow2(I.K + 1)) ]
        /\ loc' = [ loc EXCEPT !.st = rK.st, !.s = r2.s, !.rho = rr.x,
                                !.errors = @ + e1 + e2 ]
  /\ pc' = "links"
  /\ UNCHANGED << mode, m_solutions, m_non_visited_solutions, m_hv, m_set, m_ref,
                  m_anytime, cfg, call >>

\* the p links header and loadLinks; without the word links the section is
\* reported on std::cerr and skipped
LoadLinksSection ==
  /\ mode = "load" /\ pc = "links"
  /\ LET r1 == ReadWord(loc.file, loc.st, loc.s)
         e1 == IF r1.s # Word("p") THEN 1 ELSE 0
         r2 == ReadWord(loc.file, r1.st, r1.s)
     IN IF r2.s = Word("links")
        THEN LET r == IF inst.links = << >>
                      THEN [ st |-> r2.st, arr |-> inst.links ]
                      ELSE ReadCells(loc.file, CellOrder(inst, inst.K + 1), 1,
                                     [ st |-> r2.st, arr |-> inst.links ])
             IN /\ inst' = [ inst EXCEPT !.links = r.arr ]
                /\ loc' = [ loc EXCEPT !.st = r.st, !.s = r2.s, !.errors = @ + e1 ]
        ELSE /\ inst' = inst
             /\ loc' = [ loc EXCEPT !.st = r2.st, !.s = r2.s, !.errors = @ + e1 + 1 ]
  /\ pc' = "tables"
  /\ UNCHANGED << mode, m_solutions, m_non_visited_solutions, m_hv, m_set, m_ref,
                  m_anytime, cfg, call >>

\* the p tables header, loadTables and file.close(); load returns
LoadTablesSection ==
  /\ mode = "load" /\ pc = "tables"
  /\ LET r1 == ReadWord(loc.file, loc.st, loc.s)
         e1 == IF r1.s # Word("p") THEN 1 ELSE 0
         r2 == ReadWord(loc.file, r1.st, r1.s)
     IN IF r2.s = Word("tables")
        THEN LET r == IF inst.tables = << >>
                      THEN [ st |-> r2.st, arr |-> inst.tables ]
                      ELSE ReadCells(loc.file, CellOrder(inst, Pow2(inst.K + 1)), 1,
                                     [ st |-> r2.st, arr |-> inst.tables ])
             IN /\ inst' = [ inst EXCEPT !.tables = r.arr ]
                /\ loc' = [ loc EXCEPT !.st = r.st, !.s = r2.s, !.errors = @ + e1 ]
        ELSE /\ inst' = inst
             /\ loc' = [ loc EXCEPT !.st = r2.st, !.s = r2.s, !.errors = @ + e1 + 1 ]
  /\ pc' = "loaded"
  /\ UNCHANGED << mode, m_solutions, m_non_visited_solutions, m_hv, m_set, m_ref,
                  m_anytime, cfg, call >>

\* pls::pls(instance, seed): the evaluator is built by load, whatever load
\* met, and becomes the runner's eval
LoadConstruct ==
  /\ mode = "load" /\ pc = "loaded"
  /\ pc' = "handed"
  /\ UNCHANGED << mode, inst, m_solutions, m_non_visited_solutions, m_hv, m_set, m_ref,
                  m_anytime, cfg, loc, call >>

\* what an evaluation that reads a cell or a parameter nothing was written
\* to, or a bit outside the solution, may leave in the objective vector
GarbageObjv == { << >>, << 0 >>, << 1 >> }

\* the first line of pls::run: solution::random_solution(eval, m_generator)
\* evaluates a random bitstring; on an instance that is not fully loaded the
\* evaluation reads what nothing was written to and may end the process
LoadEvaluate ==
  /\ mode = "load" /\ pc = "handed"
  /\ IF FullyLoaded(inst)
     THEN \E dec \in Decisions(inst) :
            /\ loc' = [ loc EXCEPT !.objv = Eval(inst, dec) ]
            /\ pc' = "evaluated"
     ELSE \E o \in GarbageObjv, p \in { "evaluated", "crashed" } :
            /\ loc' = [ loc EXCEPT !.objv = o ]
            /\ pc' = p
  /\ UNCHANGED << mode, inst, m_solutions, m_non_visited_solutions, m_hv, m_set, m_ref,
                  m_anytime, cfg, call >>

LoadNext ==
  \/ LoadOpen
  \/ LoadComment
  \/ LoadParams
  \/ LoadLinksSection
  \/ LoadTablesSection
  \/ LoadConstruct
  \/ LoadEvaluate

SpecLoad == LoadInit /\ [][LoadNext]_vars

(***************************************************************************)
(* The conf machine: the command line of the ibea subcommand is parsed,    *)
(* the IBEA object is built and IBEA::m_run is entered with the k-way      *)
(* tournament of the parsed sizes.  Sizes are std::size_t: 0 - 1 is the    *)
(* largest value of the type.                                              *)
(***************************************************************************)
\* the options -s (matting pool size), -t (tournament size) and -r (hvref;
\* << >> when absent) with -m 1 or 2, -p 1 and -g 1
ConfCfgs ==
  { [ algo |-> "ibea", maxeval |-> e, pop_max |-> 1, max_generations |-> 1,
      matting_pool_size |-> s, tournament_size |-> k, ref |-> r ] :
      e \in 1..2, s \in -1..2, k \in -1..2,
      r \in { << >>, << 0 >>, << 0, 0 >>, << 0, 0, 0 >> } }

ConfLocals ==
  [ evaluation |-> 0, i |-> 0, gen |-> 0, population |-> << >>, matting_pool |-> << >> ]

ConfInit ==
  /\ mode = "conf"
  /\ inst \in RunInstances
  /\ cfg \in ConfCfgs
  /\ m_solutions = << >>
  /\ m_non_visited_solutions = << >>
  /\ m_hv = 0 /\ m_set = << >> /\ m_ref = << >>
  /\ m_anytime = << >>
  /\ pc = "cli"
  /\ loc = ConfLocals
  /\ call = NoCall

\* CLI::NonNegativeNumber on -s and -t, no check on -r; then ibea(...):
\* IBEA(instance, seed) with the zero reference when -r is absent, else
\* IBEA(instance, seed, ref)
ConfParse ==
  /\ mode = "conf" /\ pc = "cli"
  /\ IF cfg.matting_pool_size < 0 \/ cfg.tournament_size < 0
     THEN /\ pc' = "rejected"
          /\ UNCHANGED m_ref
     ELSE /\ pc' = "init"
          /\ m_ref' = IF cfg.ref = << >> THEN [ i \in 1..inst.M |-> 0 ] ELSE cfg.ref
  /\ UNCHANGED << mode, inst, m_solutions, m_non_visited_solutions, m_hv, m_set,
                  m_anytime, cfg, loc, call >>

\* what hvobj::insert leaves in m_hv when m_point_hv reads r[i] past the
\* end of the reference
GarbageHv == { 0, 1 }

\* one iteration of the loop that fills the initial population; with a
\* reference shorter than the objective vector the insert reads past the end
\* of the reference and may end the process
ConfInitStep ==
  /\ mode = "conf" /\ pc = "init"
  /\ loc.i < cfg.pop_max /\ loc.evaluation < cfg.maxeval
  /\ \E dec \in Decisions(inst) :
       LET sol == Solution(inst, dec)
           r == add_non_dominated(m_solutions, sol)
       IN /\ m_solutions' = r.set
          /\ loc' = [ loc EXCEPT !.population = Append(loc.population, sol),
                                 !.evaluation = loc.evaluation + 1,
                                 !.i = loc.i + 1 ]
          /\ IF ~r.ret
             THEN UNCHANGED << m_hv, m_set, m_anytime, pc >>
             ELSE IF Len(m_ref) >= Len(sol.obj)
             THEN LET h == insert(m_hvo, sol.obj).h
                  IN /\ m_hv' = h.hv /\ m_set' = h.set
                     /\ m_anytime' = Append(m_anytime, GenRow(loc.evaluation, loc.gen, h.hv))
                     /\ UNCHANGED pc
             ELSE \E g \in GarbageHv, p \in { "init", "crashed" } :
                     /\ m_hv' = g /\ m_set' = Append(m_set, sol.obj)
                     /\ m_anytime' = Append(m_anytime, GenRow(loc.evaluation, loc.gen, g))
                     /\ pc' = p
  /\ UNCHANGED << mode, inst, m_non_visited_solutions, m_ref, cfg, call >>

\* the initial population is complete, or the budget is spent
ConfInitEnd ==
  /\ mode = "conf" /\ pc = "init"
  /\ ~(loc.i < cfg.pop_max /\ loc.evaluation < cfg.maxeval)
  /\ pc' = "gen"
  /\ UNCHANGED << mode, inst, m_solutions, m_non_visited_solutions, m_hv, m_set, m_ref,
                  m_anytime, cfg, loc, call >>

\* the head of a generation calls selection_method(population)
ConfTournamentEnter ==
  /\ mode = "conf" /\ pc = "gen"
  /\ loc.evaluation < cfg.maxeval /\ loc.gen < cfg.max_generations
  /\ pc' = "tournament"
  /\ UNCHANGED << mode, inst, m_solutions, m_non_visited_solutions, m_hv, m_set, m_ref,
                  m_anytime, cfg, loc, call >>

\* k_way_tournament::operator(): matting_pool_size winners, each the best of
\* tournament_size draws
ConfTournament ==
  /\ mode = "conf" /\ pc = "tournament"
  /\ cfg.matting_pool_size = 0 \/ cfg.tournament_size >= 1
  /\ \E best \in [ 1..cfg.matting_pool_size -> 1..Len(loc.population) ] :
       loc' = [ loc EXCEPT !.matting_pool =
                  [ q \in 1..cfg.matting_pool_size |-> loc.population[best[q]] ] ]
  /\ pc' = "crossover"
  /\ UNCHANGED << mode, inst, m_solutions, m_non_visited_solutions, m_hv, m_set, m_ref,
                  m_anytime, cfg, call >>

\* with tournament size 0 the bound m_tournament_size - 1 of the inner loop
\* is the largest std::size_t: the draws of the first winner go on
ConfTournamentSpin ==
  /\ mode = "conf" /\ pc = "tournament"
  /\ cfg.matting_pool_size >= 1 /\ cfg.tournament_size = 0
  /\ pc' = "drawing"
  /\ UNCHANGED << mode, inst, m_solutions, m_non_visited_solutions, m_hv, m_set, m_ref,
                  m_anytime, cfg, loc, call >>

\* the pairwise crossover walk, mutation and evaluation of the mating pool;
\* with an empty pool the bound matting_pool.size() - 1 is the largest
\* std::size_t and the walk starts on matting_pool[0] and matting_pool[1] of
\* an empty vector, which may end the process
ConfVariation ==
  /\ mode = "conf" /\ pc = "crossover"
  /\ IF Len(loc.matting_pool) = 0
     THEN /\ pc' \in { "walking", "crashed" }
          /\ UNCHANGED loc
     ELSE /\ \E mask \in [ 1..Len(loc.matting_pool) -> Decisions(inst) ] :
               loc' = [ loc EXCEPT !.matting_pool =
                          [ q \in 1..Len(loc.matting_pool) |->
                              Solution(inst, FlipMask(loc.matting_pool[q].dec, mask[q])) ] ]
          /\ pc' = "children"
  /\ UNCHANGED << mode, inst, m_solutions, m_non_visited_solutions, m_hv, m_set, m_ref,
                  m_anytime, cfg, call >>

\* the children are added to the archive, the hypervolume object and the
\* population, one after the other
RECURSIVE ConfInsertChildren(_, _, _)
ConfInsertChildren(pool, k, st) ==
  IF k > Len(pool) THEN st
  ELSE LET r == add_non_dominated(st.solutions, pool[k])
           h == insert(st.hvo, pool[k].obj).h
       IN ConfInsertChildren(pool, k + 1,
            [ solutions  |-> r.set,
              hvo        |-> IF r.ret THEN h ELSE st.hvo,
              anytime    |-> IF r.ret
                             THEN Append(st.anytime, GenRow(st.evaluation, loc.gen, h.hv))
                             ELSE st.anytime,
              population |-> Append(st.population, pool[k]),
              evaluation |-> st.evaluation + 1 ])

\* the loop over the children, environmental selection, ++gen and, the one
\* generation being over, the final row
ConfChildren ==
  /\ mode = "conf" /\ pc = "children"
  /\ Len(m_ref) >= inst.M
  /\ LET st == ConfInsertChildren(loc.matting_pool, 1,
                 [ solutions |-> m_solutions, hvo |-> m_hvo, anytime |-> m_anytime,
                   population |-> loc.population, evaluation |-> loc.evaluation ])
     IN /\ m_solutions' = st.solutions
        /\ m_hv' = st.hvo.hv /\ m_set' = st.hvo.set
        /\ \E population \in EnvironmentalSelection(st.population, cfg.pop_max) :
             loc' = [ loc EXCEPT !.population = population, !.matting_pool = << >>,
                                 !.evaluation = st.evaluation, !.gen = loc.gen + 1 ]
        /\ m_anytime' = Append(st.anytime, GenRow(st.evaluation, loc.gen + 1, st.hvo.hv))
  /\ pc' = "done"
  /\ UNCHANGED << mode, inst, m_non_visited_solutions, m_ref, cfg, call >>

\* the children's inserts with a reference shorter than the objective vector
ConfChildrenShortRef ==
  /\ mode = "conf" /\ pc = "children"
  /\ Len(m_ref) < inst.M
  /\ pc' \in { "done", "crashed" }
  /\ \E g \in GarbageHv :
       /\ m_hv' = g
       /\ m_anytime' = Append(m_anytime,
                         GenRow(loc.evaluation + Len(loc.matting_pool), loc.gen + 1, g))
  /\ loc' = [ loc EXCEPT !.evaluation = loc.evaluation + Len(loc.matting_pool),
                         !.gen = loc.gen + 1 ]
  /\ UNCHANGED << mode, inst, m_solutions, m_non_visited_solutions, m_set, m_ref, cfg, call >>

\* the generation loop is not entered: the final row
ConfFinish ==
  /\ mode = "conf" /\ pc = "gen"
  /\ ~(loc.evaluation < cfg.maxeval /\ loc.gen < cfg.max_generations)
  /\ m_anytime' = Append(m_anytime, GenRow(loc.evaluation, loc.gen, m_hv))
  /\ pc' = "done"
  /\ UNCHANGED << mode, inst, m_solutions, m_non_visited_solutions, m_hv, m_set, m_ref,
                  cfg, loc, call >>

ConfNext ==
  \/ ConfParse
  \/ ConfInitStep
  \/ ConfInitEnd
  \/ ConfTournamentEnter
  \/ ConfTournament
  \/ ConfTournamentSpin
  \/ ConfVariation
  \/ ConfChildren
  \/ ConfChildrenShortRef
  \/ ConfFinish

SpecConf == ConfInit /\ [][ConfNext]_vars

(***************************************************************************)
(* The twin machine: two runs of one runner on the same instance with the  *)
(* same seed, budget, operators and reference, side by side.  A run is a   *)
(* record; an engine is a function of its seed and of the number of values *)
(* drawn from it.  gsemo and pls draw from m_generator(seed) only; the     *)
(* operators of ibea hold copies of an engine seeded by std::random_device.*)
(***************************************************************************)
\* the k-th value (k = 0, 1, ...) of an engine built from seed s
Engine(s, k) == ((s + 2) * (k + 1) + (k \div 2)) % 6

\* std::uniform_int_distribution(0, n - 1) on an engine value
UniformInt(raw, n) == raw % n

\* std::bernoulli_distribution(1 / n) on an engine value
Bernoulli(raw, n) == raw % n = 0

\* m_distrib(m_rng) < m_mutation_probability with -p 0.5
BelowHalf(raw) == raw < 3

\* what std::random_device can return
DevValues == 0..1

TwinCfgs ==
  { [ algo |-> a, maxeval |-> e, pop_max |-> p, seed |-> s ] :
      a \in { "gsemo", "pls" }, e \in 0..2, p \in { 0 }, s \in 0..1 }
  \cup
  { [ algo |-> "ibea", maxeval |-> e, pop_max |-> p, seed |-> s ] :
      e \in 2..3, p \in 1..2, s \in 0..1 }

\* a run before run() is called: dev is the value std::random_device gave
TwinRun(dev, M) ==
  [ dev |-> dev, gpos |-> 0, spos |-> 0, mpos |-> 0,
    hvo |-> hvobj([ i \in 1..M |-> 0 ]),
    solutions |-> << >>, non_visited |-> << >>, anytime |-> << >>,
    population |-> << >>, evaluation |-> 0, gen |-> 0 ]

TwinInit ==
  /\ mode = "twin"
  /\ inst \in RunInstances
  /\ cfg \in TwinCfgs
  /\ m_solutions = << >>
  /\ m_non_visited_solutions = << >>
  /\ m_hv = 0 /\ m_set = << >> /\ m_ref = << >>
  /\ m_anytime = << >>
  /\ pc = "start"
  /\ \E da \in DevValues, db \in DevValues :
       loc = [ a |-> TwinRun(da, inst.M), b |-> TwinRun(db, inst.M) ]
  /\ call = NoCall

\* solution::random_solution(eval, m_generator): one draw per bit
TwinRandomSolution(I, seed, gpos) ==
  Solution(I, [ i \in 1..I.N |-> UniformInt(Engine(seed, gpos + i - 1), 2) ])

\* solution::uniform_bit_flip_solution(eval, m_generator, original)
TwinBitFlip(I, seed, gpos, original) ==
  Solution(I, [ i \in 1..I.N |->
                  IF Bernoulli(Engine(seed, gpos + i - 1), I.N)
                  THEN 1 - original.dec[i] ELSE original.dec[i] ])

\* add_non_dominated and, when the solution was added, m_hvo.insert and a
\* row, on the run R
TwinAdd(R, sol, row) ==
  LET r == add_non_dominated(R.solutions, sol)
      h == insert(R.hvo, sol.obj).h
  IN [ R EXCEPT !.solutions = r.set,
                !.hvo = IF r.ret THEN h ELSE R.hvo,
                !.anytime = IF r.ret THEN Append(R.anytime, row @@ [ hypervolume |-> h.hv ])
                            ELSE R.anytime ]

\* gsemo::run up to the loop
TwinGsemoStartRun(I, seed, R) ==
  LET rand_solution == TwinRandomSolution(I, seed, R.gpos)
      h == insert(R.hvo, rand_solution.obj).h
  IN [ R EXCEPT !.gpos = R.gpos + I.N,
                !.hvo = h,
                !.solutions = add_non_dominated(R.solutions, rand_solution).set,
                !.anytime = Append(R.anytime, Row(0, h.hv)) ]

\* one iteration of the loop of gsemo::run
TwinGsemoStepRun(I, seed, R) ==
  LET index == UniformInt(Engine(seed, R.gpos), Len(R.solutions))
      solution == TwinBitFlip(I, seed, R.gpos + 1, R.solutions[index + 1])
      A == TwinAdd(R, solution, [ evaluation |-> R.evaluation + 1 ])
  IN [ A EXCEPT !.gpos = R.gpos + 1 + I.N, !.evaluation = R.evaluation + 1 ]

TwinGsemoStart ==
  /\ mode = "twin" /\ cfg.algo = "gsemo" /\ pc = "start"
  /\ loc' = [ a |-> TwinGsemoStartRun(inst, cfg.seed, loc.a),
              b |-> TwinGsemoStartRun(inst, cfg.seed, loc.b) ]
  /\ pc' = "gsemo_loop"
  /\ UNCHANGED << mode, inst, m_solutions, m_non_visited_solutions, m_hv, m_set, m_ref,
                  m_anytime, cfg, call >>

TwinGsemoStep ==
  /\ mode = "twin" /\ cfg.algo = "gsemo" /\ pc = "gsemo_loop"
  /\ loc.a.evaluation < cfg.maxeval
  /\ loc' = [ a |-> TwinGsemoStepRun(inst, cfg.seed, loc.a),
              b |-> TwinGsemoStepRun(inst, cfg.seed, loc.b) ]
  /\ UNCHANGED << mode, inst, m_solutions, m_non_visited_solutions, m_hv, m_set, m_ref,
                  m_anytime, cfg, pc, call >>

TwinGsemoReturn ==
  /\ mode = "twin" /\ cfg.algo = "gsemo" /\ pc = "gsemo_loop"
  /\ ~(loc.a.evaluation < cfg.maxeval)
  /\ pc' = "done"
  /\ UNCHANGED << mode, inst, m_solutions, m_non_visited_solutions, m_hv, m_set, m_ref,
                  m_anytime, cfg, loc, call >>

\* pls::run up to the loop
TwinPlsStartRun(I, seed, R) ==
  LET rand_solution == TwinRandomSolution(I, seed, R.gpos)
      h == insert(R.hvo, rand_solution.obj).h
      nv == add_non_dominated(R.non_visited, rand_solution).set
  IN [ R EXCEPT !.gpos = R.gpos + I.N,
                !.hvo = h,
                !.non_visited = nv,
                !.solutions = nv,
                !.anytime = Append(R.anytime, Row(0, h.hv)) ]

\* the scan of the neighbours of original from bit i on, in
\* m_loop<false, pac::non_dominating>
RECURSIVE TwinPlsScan(_, _, _, _, _)
TwinPlsScan(I, maxeval, original, i, R) ==
  IF ~(i < I.N /\ R.evaluation < maxeval) THEN R
  ELSE LET solution == Solution(I, FlipBit(original.dec, i))
           r == add_non_dominated(R.solutions, solution)
           A == TwinAdd([ R EXCEPT !.evaluation = R.evaluation + 1 ], solution,
                        [ evaluation |-> R.evaluation + 1 ])
       IN TwinPlsScan(I, maxeval, original, i + 1,
            IF r.ret
            THEN [ A EXCEPT !.non_visited = add_non_dominated(R.non_visited, solution).set ]
            ELSE A)

\* one iteration of the while loop of m_loop<false, pac::non_dominating>
TwinPlsStepRun(I, seed, maxeval, R) ==
  LET index == UniformInt(Engine(seed, R.gpos), Len(R.non_visited))
      original == R.non_visited[index + 1]
  IN TwinPlsScan(I, maxeval, original, 0,
       [ R EXCEPT !.gpos = R.gpos + 1,
                  !.non_visited = SwapRemove(R.non_visited, index + 1) ])

TwinPlsStart ==
  /\ mode = "twin" /\ cfg.algo = "pls" /\ pc = "start"
  /\ loc' = [ a |-> TwinPlsStartRun(inst, cfg.seed, loc.a),
              b |-> TwinPlsStartRun(inst, cfg.seed, loc.b) ]
  /\ pc' = "pls_loop"
  /\ UNCHANGED << mode, inst, m_solutions, m_non_visited_solutions, m_hv, m_set, m_ref,
                  m_anytime, cfg, call >>

TwinPlsStep ==
  /\ mode = "twin" /\ cfg.algo = "pls" /\ pc = "pls_loop"
  /\ loc.a.evaluation < cfg.maxeval /\ loc.a.non_visited # << >>
  /\ loc.b.evaluation < cfg.maxeval /\ loc.b.non_visited # << >>
  /\ loc' = [ a |-> TwinPlsStepRun(inst, cfg.seed, cfg.maxeval, loc.a),
              b |-> TwinPlsStepRun(inst, cfg.seed, cfg.maxeval, loc.b) ]
  /\ UNCHANGED << mode, inst, m_solutions, m_non_visited_solutions, m_hv, m_set, m_ref,
                  m_anytime, cfg, pc, call >>

TwinPlsReturn ==
  /\ mode = "twin" /\ cfg.algo = "pls" /\ pc = "pls_loop"
  /\ ~(loc.a.evaluation < cfg.maxeval /\ loc.a.non_visited # << >>)
  /\ ~(loc.b.evaluation < cfg.maxeval /\ loc.b.non_visited # << >>)
  /\ pc' = "done"
  /\ UNCHANGED << mode, inst, m_solutions, m_non_visited_solutions, m_hv, m_set, m_ref,
                  m_anytime, cfg, loc, call >>

\* one iteration of the loop that fills the initial population of IBEA
TwinIbeaInitRun(I, seed, R) ==
  LET sol == TwinRandomSolution(I, seed, R.gpos)
      A == TwinAdd(R, sol, [ evaluation |-> R.evaluation, generation |-> R.gen ])
  IN [ A EXCEPT !.gpos = R.gpos + I.N,
                !.population = Append(R.population, sol),
                !.evaluation = R.evaluation + 1 ]

\* one generation with kwt(1, 1, rng) and um(0.5, rng): each operator draws
\* from its own copy of rng, the engine built from std::random_device; the
\* pool of one individual is not crossed; the final row follows, the one
\* generation being over (m_environmental_selection changes the population
\* only, which is not read again)
TwinIbeaGenerationRun(I, R) ==
  LET best == UniformInt(Engine(R.dev, R.spos), Len(R.population))
      parent == R.population[best + 1]
      individual == Solution(I, [ i \in 1..I.N |->
                                    IF BelowHalf(Engine(R.dev, R.mpos + i - 1))
                                    THEN 1 - parent.dec[i] ELSE parent.dec[i] ])
      A == TwinAdd(R, individual, [ evaluation |-> R.evaluation, generation |-> R.gen ])
  IN [ A EXCEPT !.spos = R.spos + 1, !.mpos = R.mpos + I.N,
                !.population = Append(R.population, individual),
                !.evaluation = R.evaluation + 1,
                !.gen = R.gen + 1,
                !.anytime = Append(A.anytime,
                              GenRow(R.evaluation + 1, R.gen + 1, A.hvo.hv)) ]

TwinIbeaInitStep ==
  /\ mode = "twin" /\ cfg.algo = "ibea" /\ pc = "start"
  /\ Len(loc.a.population) < cfg.pop_max /\ loc.a.evaluation < cfg.maxeval
  /\ loc' = [ a |-> TwinIbeaInitRun(inst, cfg.seed, loc.a),
              b |-> TwinIbeaInitRun(inst, cfg.seed, loc.b) ]
  /\ UNCHANGED << mode, inst, m_solutions, m_non_visited_solutions, m_hv, m_set, m_ref,
                  m_anytime, cfg, pc, call >>

TwinIbeaInitEnd ==
  /\ mode = "twin" /\ cfg.algo = "ibea" /\ pc = "start"
  /\ ~(Len(loc.a.population) < cfg.pop_max /\ loc.a.evaluation < cfg.maxeval)
  /\ pc' = "ibea_gen"
  /\ UNCHANGED << mode, inst, m_solutions, m_non_visited_solutions, m_hv, m_set, m_ref,
                  m_anytime, cfg, loc, call >>

TwinIbeaGeneration ==
  /\ mode = "twin" /\ cfg.algo = "ibea" /\ pc = "ibea_gen"
  /\ loc.a.evaluation < cfg.maxeval /\ loc.a.gen < 1
  /\ loc' = [ a |-> TwinIbeaGenerationRun(inst, loc.a),
              b |-> TwinIbeaGenerationRun(inst, loc.b) ]
  /\ pc' = "done"
  /\ UNCHANGED << mode, inst, m_solutions, m_non_visited_solutions, m_hv, m_set, m_ref,
                  m_anytime, cfg, call >>

\* the generation loop is not entered: the final row
TwinIbeaFinish ==
  /\ mode = "twin" /\ cfg.algo = "ibea" /\ pc = "ibea_gen"
  /\ ~(loc.a.evaluation < cfg.maxeval /\ loc.a.gen < 1)
  /\ loc' = [ a |-> [ loc.a EXCEPT !.anytime = Append(@, GenRow(loc.a.evaluation, loc.a.gen,
                                                               loc.a.hvo.hv)) ],
              b |-> [ loc.b EXCEPT !.anytime = Append(@, GenRow(loc.b.evaluation, loc.b.gen,
                                                               loc.b.hvo.hv)) ] ]
  /\ pc' = "done"
  /\ UNCHANGED << mode, inst, m_solutions, m_non_visited_solutions, m_hv, m_set, m_ref,
                  m_anytime, cfg, call >>

TwinNext ==
  \/ TwinGsemoStart \/ TwinGsemoStep \/ TwinGsemoReturn
  \/ TwinPlsStart \/ TwinPlsStep \/ TwinPlsReturn
  \/ TwinIbeaInitStep \/ TwinIbeaInitEnd \/ TwinIbeaGeneration \/ TwinIbeaFinish

SpecTwin == TwinInit /\ [][TwinNext]_vars

(***************************************************************************)
(* The eps machine: indicator::eps called on two solutions.  Objective     *)
(* values are counted in halves (2 stands for 1.0), so that the smallest   *)
(* positive double, which is below every positive difference of objective  *)
(* values, has a value of its own.                                         *)
(***************************************************************************)
\* std::numeric_limits<double>::min(), the smallest positive normal double
DblMin == 1

\* the objective values 0.0, 1.0 and 2.0
EpsValues == { 0, 2, 4 }

Max2(a, b) == IF a > b THEN a ELSE b

\* the loop of eps::operator() from component i on
RECURSIVE EpsLoop(_, _, _, _)
EpsLoop(o1, o2, i, indicator) ==
  IF i > Len(o1) THEN indicator
  ELSE EpsLoop(o1, o2, i + 1, Max2(indicator, o2[i] - o1[i]))

\* indicator::eps::operator()(s1, s2)
eps(s1, s2) == EpsLoop(s1.obj, s2.obj, 1, DblMin)

EpsInit ==
  /\ mode = "eps"
  /\ inst = NoInstance
  /\ m_solutions = << >>
  /\ m_non_visited_solutions = << >>
  /\ m_hv = 0 /\ m_set = << >> /\ m_ref = << >>
  /\ m_anytime = << >>
  /\ cfg = NoCfg
  /\ pc = "call"
  /\ \E M \in 1..2 :
       \E o1 \in SeqsOfLen(EpsValues, M), o2 \in SeqsOfLen(EpsValues, M) :
         loc = [ s1 |-> [ dec |-> << >>, obj |-> o1 ],
                 s2 |-> [ dec |-> << >>, obj |-> o2 ] ]
  /\ call = NoCall

\* the indicator is called on (s1, s2) and on (s2, s1)
EpsCall ==
  /\ mode = "eps" /\ pc = "call"
  /\ call' = [ op |-> "eps", ret |-> eps(loc.s1, loc.s2), rev |-> eps(loc.s2, loc.s1) ]
  /\ pc' = "done"
  /\ UNCHANGED << mode, inst, m_solutions, m_non_visited_solutions, m_hv, m_set, m_ref,
                  m_anytime, cfg, loc >>

EpsNext == EpsCall

SpecEps == EpsInit /\ [][EpsNext]_vars

(***************************************************************************)
(* The cross machine: crossover::uniform_crossover built with a crossover  *)
(* probability and called on two bitstrings; draws[i] is what              *)
(* m_distrib(m_rng) gives at bit i.                                        *)
(***************************************************************************)
\* the crossover probabilities 0.0, 0.5 and 1.0, in halves
CrossoverProbabilities == 0..2

\* the loop of uniform_crossover::operator() from bit i on; st = [s1, s2]
RECURSIVE UniformCrossoverLoop(_, _, _)
UniformCrossoverLoop(st, draws, i) ==
  IF i > Len(st.s1) THEN st
  ELSE UniformCrossoverLoop(
         IF draws[i]
         THEN [ s1 |-> [ st.s1 EXCEPT ![i] = st.s2[i] ],
                s2 |-> [ st.s2 EXCEPT ![i] = st.s1[i] ] ]
         ELSE st,
         draws, i + 1)

\* uniform_crossover::operator()(s1, s2) of an operator built with
\* crossover_probability
uniform_crossover(crossover_probability, s1, s2, draws) ==
  UniformCrossoverLoop([ s1 |-> s1, s2 |-> s2 ], draws, 1)

CrossInit ==
  /\ mode = "cross"
  /\ inst = NoInstance
  /\ m_solutions = << >>
  /\ m_non_visited_solutions = << >>
  /\ m_hv = 0 /\ m_set = << >> /\ m_ref = << >>
  /\ m_anytime = << >>
  /\ cfg \in { [ algo |-> "uc", m_crossover_probability |-> p ] : p \in CrossoverProbabilities }
  /\ pc = "call"
  /\ \E s1 \in SeqsOfLen({0, 1}, 2), s2 \in SeqsOfLen({0, 1}, 2),
        draws \in SeqsOfLen(BOOLEAN, 2) :
       loc = [ s1 |-> s1, s2 |-> s2, draws |-> draws ]
  /\ call = NoCall

\* the operator is called on s1 and s2, which it changes in place
CrossCall ==
  /\ mode = "cross" /\ pc = "call"
  /\ LET r == uniform_crossover(cfg.m_crossover_probability, loc.s1, loc.s2, loc.draws)
     IN loc' = [ loc EXCEPT !.s1 = r.s1, !.s2 = r.s2 ]
  /\ call' = [ op |-> "uniform_crossover", s1 |-> loc.s1, s2 |-> loc.s2 ]
  /\ pc' = "done"
  /\ UNCHANGED << mode, inst, m_solutions, m_non_visited_solutions, m_hv, m_set, m_ref,
                  m_anytime, cfg >>

CrossNext == CrossCall

SpecCross == CrossInit /\ [][CrossNext]_vars

(***************************************************************************)
(* n_point_crossover::operator() (NPointCrossover of IBEA is the same      *)
(* code).  Probabilities and the real draw are counted in halves.          *)
(***************************************************************************)
\* the numbers of crossover points of the operators
CrossoverPoints == 0..2

\* the lengths of the solutions handed to the operator
CrossLengths == 1..3

\* mutant of SwapSegment: the segment includes p2
SwapSegmentInclusive(st, p1, p2) ==
  [ s1 |-> [ j \in 1..Len(st.s1) |->
               IF p1 <= j - 1 /\ j - 1 <= p2 THEN st.s2[j] ELSE st.s1[j] ],
    s2 |-> [ j \in 1..Len(st.s2) |->
               IF p1 <= j - 1 /\ j - 1 <= p2 THEN st.s1[j] ELSE st.s2[j] ] ]

\* for (j = p1; j < p2; ++j) std::swap(s1[j], s2[j])   (0-based p1, p2)
SwapSegment(st, p1, p2) ==
  [ s1 |-> [ j \in 1..Len(st.s1) |->
               IF p1 <= j - 1 /\ j - 1 < p2 THEN st.s2[j] ELSE st.s1[j] ],
    s2 |-> [ j \in 1..Len(st.s2) |->
               IF p1 <= j - 1 /\ j - 1 < p2 THEN st.s1[j] ELSE st.s2[j] ] ]

NPointInit ==
  /\ mode = "npoint"
  /\ inst = NoInstance
  /\ m_solutions = << >>
  /\ m_non_visited_solutions = << >>
  /\ m_hv = 0 /\ m_set = << >> /\ m_ref = << >>
  /\ m_anytime = << >>
  /\ cfg \in { [ algo |-> "npc", m_crossover_points |-> n, m_crossover_probability |-> p ] :
               n \in CrossoverPoints, p \in CrossoverProbabilities }
  /\ pc = "call"
  /\ \E L \in CrossLengths :
       \E s1 \in SeqsOfLen({0, 1}, L), s2 \in SeqsOfLen({0, 1}, L) :
         loc = [ s1 |-> s1, s2 |-> s2, applied |-> FALSE, i |-> 0, p1 |-> 0, p2 |-> 0 ]
  /\ call = NoCall

\* the call and the test m_distrib(m_rng) < m_crossover_probability; the
\* draw is 0 or one half
NPointCall ==
  /\ mode = "npoint" /\ pc = "call"
  /\ \E u \in 0..1 :
       LET applied == u < cfg.m_crossover_probability
       IN /\ loc' = [ loc EXCEPT !.applied = applied, !.i = 0, !.p1 = 0, !.p2 = 0 ]
          /\ pc' = IF applied THEN "points" ELSE "done"
  /\ call' = [ op |-> "n_point_crossover", s1 |-> loc.s1, s2 |-> loc.s2 ]
  /\ UNCHANGED << mode, inst, m_solutions, m_non_visited_solutions, m_hv, m_set, m_ref,
                  m_anytime, cfg >>

\* one iteration of the loop over the crossover points: the draw of p2, the
\* swaps, and ++i, p1 = p2
NPointPoint ==
  /\ mode = "npoint" /\ pc = "points"
  /\ loc.i < cfg.m_crossover_points
  /\ \E p2 \in loc.p1..(Len(loc.s1) - 1) :
       LET r == SwapSegment([ s1 |-> loc.s1, s2 |-> loc.s2 ], loc.p1, p2)
       IN loc' = [ loc EXCEPT !.s1 = r.s1, !.s2 = r.s2, !.p2 = p2, !.p1 = p2,
                              !.i = loc.i + 1 ]
  /\ UNCHANGED << mode, inst, m_solutions, m_non_visited_solutions, m_hv, m_set, m_ref,
                  m_anytime, cfg, pc, call >>

\* the loop over the crossover points ends and the operator returns
NPointReturn ==
  /\ mode = "npoint" /\ pc = "points"
  /\ ~(loc.i < cfg.m_crossover_points)
  /\ pc' = "done"
  /\ UNCHANGED << mode, inst, m_solutions, m_non_visited_solutions, m_hv, m_set, m_ref,
                  m_anytime, cfg, loc, call >>

NPointNext == NPointCall \/ NPointPoint \/ NPointReturn

SpecNPoint == NPointInit /\ [][NPointNext]_vars

(***************************************************************************)
(* The hv1 machine: an hvobj with a reference of one component, and        *)
(* inserts of points of one component.  m_set_hv takes its general branch  *)
(* for such points and calls m_point_hv on two empty vectors, which reads  *)
(* v[0] and r[0] past their end.                                           *)
(***************************************************************************)
\* the number of inserts of a run of the hv1 machine
MaxInserts == 3

\* the points of one component
Hv1Points == { << x >> : x \in 1..4 }

\* what v[0] - r[0] read from two empty vectors can be
GarbageDifference == 0..2

\* m_set_hv(s, r) for a set s of points of one component, g being what the
\* call m_point_hv(newp, newr) returns: s is the result of m_limit_set and
\* holds one point at most
m_set_hv1(s, r, g) ==
  IF Len(s) = 0 THEN 0
  ELSE LET p    == s[1]
           newc == 1 * (p[1] - r[1])
       IN newc * g - 0

\* hvobj::contribution(v) for a point of one component
contribution1(h, v, g) == m_point_hv(v, h.ref) - m_set_hv1(m_limit_set(h.set, v), h.ref, g)

Hv1Init ==
  /\ mode = "hv1"
  /\ inst = NoInstance
  /\ m_solutions = << >>
  /\ m_non_visited_solutions = << >>
  /\ m_hv = 0 /\ m_set = << >>
  /\ m_ref \in { << 0 >>, << 1 >> }
  /\ m_anytime = << >>
  /\ cfg = NoCfg
  /\ pc = "idle"
  /\ loc = [ inserted |-> { }, oob |-> FALSE, n |-> 0 ]
  /\ call = NoCall

\* hvobj::insert(v) with v of one component, not below the reference; with a
\* stored point the call reads past the end of two empty vectors and may end
\* the process
Hv1Insert ==
  /\ mode = "hv1" /\ pc = "idle"
  /\ loc.n < MaxInserts
  /\ \E v \in Hv1Points :
       /\ v[1] >= m_ref[1]
       /\ IF Len(m_limit_set(m_set, v)) = 0
          THEN LET r == insert(m_hvo, v)
               IN /\ m_hv' = r.h.hv /\ m_set' = r.h.set
                  /\ loc' = [ loc EXCEPT !.inserted = @ \cup { v }, !.n = @ + 1 ]
                  /\ call' = [ op |-> "insert", v |-> v, ret |-> r.ret ]
                  /\ pc' = "idle"
          ELSE \E g \in GarbageDifference, p \in { "idle", "crashed" } :
                 LET hvc == contribution1(m_hvo, v, g)
                 IN /\ IF hvc # 0
                       THEN /\ m_set' = m_insert_non_dominated(v, m_set)
                            /\ m_hv' = m_hv + hvc
                       ELSE UNCHANGED << m_hv, m_set >>
                    /\ loc' = [ inserted |-> loc.inserted \cup { v }, oob |-> TRUE,
                                n |-> loc.n + 1 ]
                    /\ call' = [ op |-> "insert", v |-> v, ret |-> hvc ]
                    /\ pc' = p
  /\ UNCHANGED << mode, inst, m_solutions, m_non_visited_solutions, m_ref, m_anytime, cfg >>

Hv1Next == Hv1Insert

SpecHv1 == Hv1Init /\ [][Hv1Next]_vars

(***************************************************************************)
(* Properties.                                                             *)
(***************************************************************************)
\* a >= b componentwise and a # b, stated without the loop of dominance
Dominates(a, b) == (\A k \in 1..Len(a) : a[k] >= b[k]) /\ a # b

Objectives(S) == { S[k].obj : k \in 1..Len(S) }

\* C1: starting from an empty archive, after any sequence of
\* add_non_dominated calls with solutions whose objective vector is the
\* evaluation of their decision vector, no member's objective vector
\* dominates another member's and no two members share a decision vector.
C1_ArchiveNonDominated ==
  mode = "archive" =>
    \A i, j \in 1..Len(m_solutions) :
      i # j => /\ ~Dominates(m_solutions[i].obj, m_solutions[j].obj)
               /\ m_solutions[i].dec # m_solutions[j].dec

\* an accepted solution pruned a member of an archive and at least two
\* members are stored afterwards
C1_Witness ==
  /\ mode = "archive" /\ call.op = "add" /\ call.ret
  /\ Len(m_solutions) >= 2
  /\ Len(m_solutions) <= Len(call.before)

\* C2: for a fixed reference r and any sequence of insert and remove calls
\* with points of dimension 2, 3 or 4 that lie strictly above r, value()
\* is the measure of the union of the boxes [r, p] over the stored points p.
C2_ValueIsHypervolume ==
  mode = "hv" => m_hv = SetHypervolume(Range(m_set), m_ref)

\* r = (0,0) and the stored points (3,1), (2,2), (1,3): value() is 6
C2_Witness ==
  /\ mode = "hv" /\ m_ref = << 0, 0 >>
  /\ Range(m_set) = { << 3, 1 >>, << 2, 2 >>, << 1, 3 >> }
  /\ m_hv = 6

\* C4: on an archive reached from the empty one (mutually nondominated,
\* no repeated decision vector) add_non_dominated(S, s) returns true iff the
\* solution object s is stored in S afterwards; it returns false iff a
\* member dominates s or has the decision vector of s, and then S holds
\* exactly the members it held before the call.
C4_ReturnTellsInsertion ==
  (mode = "archive" /\ call.op = "add") =>
    /\ call.ret <=> (\E k \in 1..Len(m_solutions) : m_solutions[k].mark)
    /\ ~call.ret <=> (\E x \in Range(call.before) :
                        Dominates(x.obj, call.s.obj) \/ x.dec = call.s.dec)
    /\ ~call.ret => /\ Range(m_solutions) = Range(call.before)
                    /\ Len(m_solutions) = Len(call.before)

\* a solution is rejected because a member that is not the first one has
\* its decision vector
C4_Witness ==
  /\ mode = "archive" /\ call.op = "add" /\ ~call.ret
  /\ \E k \in 2..Len(call.before) : call.before[k].dec = call.s.dec

\* C5: when add_non_dominated(S, s) accepts s, the archive afterwards is
\* exactly the members of S whose objective vector s does not dominate,
\* together with s, each stored once.
C5_AcceptPrunesExactlyDominated ==
  (mode = "archive" /\ call.op = "add" /\ call.ret) =>
    LET kept == { x \in Range(call.before) : ~Dominates(call.s.obj, x.obj) }
    IN /\ Range(m_solutions) = kept \cup { call.s }
       /\ Len(m_solutions) = Cardinality(kept) + 1

\* the archive (3,1), (2,2), (1,3) receives (3,3) and becomes {(3,3)}
C5_Witness ==
  /\ mode = "archive" /\ call.op = "add" /\ call.ret
  /\ call.s.obj = << 3, 3 >>
  /\ Objectives(call.before) = { << 3, 1 >>, << 2, 2 >>, << 1, 3 >> }
  /\ Len(call.before) = 3
  /\ Objectives(m_solutions) = { << 3, 3 >> }

\* the rows of the log, read in order, have nondecreasing evaluation counts
\* and nondecreasing hypervolume values
LogSorted ==
  \A k \in 1..(Len(m_anytime) - 1) :
    /\ m_anytime[k].evaluation <= m_anytime[k + 1].evaluation
    /\ m_anytime[k].hypervolume <= m_anytime[k + 1].hypervolume

GsemoRows ==
  (mode = "run" /\ cfg.algo = "gsemo" /\ pc # "start") =>
    /\ Len(m_anytime) >= 1
    /\ m_anytime[1] =
         Row(0, ProdSeq([ k \in 1..inst.M |-> loc.rand_solution.obj[k] - m_ref[k] ]))
    /\ \A k \in 1..(Len(m_anytime) - 1) :
         m_anytime[k].evaluation < m_anytime[k + 1].evaluation
    /\ \A k \in 1..Len(m_anytime) : m_anytime[k].evaluation \in 0..loc.i
    /\ loc.i >= 1 =>
         (call.ret <=> \E k \in 1..Len(m_anytime) : m_anytime[k].evaluation = loc.i)
    /\ loc.i <= cfg.maxeval
    /\ pc = "done" => loc.i = cfg.maxeval

\* C6: gsemo::run(maxeval) evaluates maxeval children (loc.i counts them)
\* after the initial solution and then returns; the first row is (0,
\* hypervolume of the initial solution), the row with evaluation e exists
\* iff add_non_dominated accepted the e-th child, and the evaluation fields
\* of the rows are strictly increasing.
C6_GsemoRunRows ==
  /\ []GsemoRows
  /\ <>(pc = "done")

\* a finished run of MaxEval children, some accepted and the last rejected
C6_Witness ==
  /\ mode = "run" /\ cfg.algo = "gsemo" /\ pc = "done"
  /\ cfg.maxeval = MaxEval /\ loc.i = MaxEval
  /\ Len(m_anytime) >= 2
  /\ ~call.ret
  /\ m_anytime[Len(m_anytime)].evaluation < MaxEval

\* C7: pls::run returns for every acceptance and exploration variant; a
\* step changes the evaluation counter iff it generates a neighbour, and
\* then by exactly one; the counter never exceeds maxeval; and on return the
\* counter equals maxeval or the frontier is empty.
C7_PlsTerminates ==
  /\ [](mode = "run" /\ cfg.algo = "pls" =>
          /\ loc.evaluation <= cfg.maxeval
          /\ pc = "done" =>
               (loc.evaluation = cfg.maxeval \/ m_non_visited_solutions = << >>))
  /\ [][mode = "run" /\ cfg.algo = "pls" =>
          IF pc = "pls_scan" /\ PlsScanCond
          THEN loc'.evaluation = loc.evaluation + 1
          ELSE loc'.evaluation = loc.evaluation]_vars
  /\ <>(pc = "done")

\* a run with acceptance both and both explorations has returned on an
\* empty frontier with budget left, after it generated neighbours
C7_Witness ==
  /\ mode = "run" /\ cfg.algo = "pls" /\ pc = "done"
  /\ cfg.acceptance = "both" /\ cfg.exploration = "both"
  /\ m_non_visited_solutions = << >>
  /\ loc.evaluation >= 2 /\ loc.evaluation < cfg.maxeval

\* C8: in a run of IBEA the evaluation counter, and the evaluation field of
\* every row of the log, the final one included, is at most maxeval.
C8_IbeaWithinBudget ==
  (mode = "run" /\ cfg.algo = "ibea") =>
    /\ loc.evaluation <= cfg.maxeval
    /\ \A k \in 1..Len(m_anytime) : m_anytime[k].evaluation <= cfg.maxeval

\* sum over j in [0, K] of x[links[m][i][j]] * 2^j, with m and i 0-based
SigmaSum(I, m, x, i) ==
  SumSeq([ j \in 1..(I.K + 1) |-> x[I.links[m + 1][i + 1][j] + 1] * Pow2(j - 1) ])

\* C9: after RMNKEval::eval on bitstring x, N * y[m] is the sum over i of
\* tables[m][i][sigma(m, x, i)] with sigma the sum of x[links[m][i][j]] * 2^j;
\* links[0][0] = [2, 0] and x = 1 0 1 give sigma = 3; and the call changes
\* neither the instance nor x.
C9_EvalFormula ==
  /\ [](mode = "eval" /\ call.op = "eval" =>
          /\ Len(loc._objVec) = inst.M
          /\ \A m \in 1..inst.M :
               inst.N * loc._objVec[m] =
                 SumSeq([ i \in 1..inst.N |->
                   inst.tables[m][i][SigmaSum(inst, m - 1, loc._solution, i - 1) + 1] ]))
  /\ [](mode = "eval" /\ inst.links[1][1] = << 2, 0 >> /\ loc._solution = << 1, 0, 1 >> =>
          sigma(inst, 0, loc._solution, 0) = 3)
  /\ [][mode = "eval" =>
          /\ inst' = inst
          /\ pc = "call" => loc'._solution = loc._solution]_vars

\* eval has returned on x = 1 0 1 for an instance with links[0][0] = [2, 0]
\* whose two objectives differ on x
C9_Witness ==
  /\ mode = "eval" /\ call.op = "eval"
  /\ inst.links[1][1] = << 2, 0 >>
  /\ loc._solution = << 1, 0, 1 >>
  /\ loc._objVec[1] # loc._objVec[2]

\* C10: a.dominance(b) is dominates iff a >= b componentwise and a # b,
\* equal iff a = b, dominated iff b >= a componentwise and a # b, and
\* incomparable otherwise; and it is dominates exactly when b.dominance(a)
\* is dominated.
C10_DominanceCharacterization ==
  (mode = "dom" /\ call.op = "dominance") =>
    /\ call.ret = "dominates" <=> Dominates(loc.a, loc.b)
    /\ call.ret = "equal" <=> loc.a = loc.b
    /\ call.ret = "dominated" <=> Dominates(loc.b, loc.a)
    /\ call.ret = "incomparable" <=>
         ~(Dominates(loc.a, loc.b) \/ loc.a = loc.b \/ Dominates(loc.b, loc.a))
    /\ call.ret = "dominates" <=> call.rev = "dominated"

\* dominance has returned incomparable on two vectors of three objectives
\* that agree on one of them
C10_Witness ==
  /\ mode = "dom" /\ call.op = "dominance"
  /\ Len(loc.a) = 3
  /\ call.ret = "incomparable"
  /\ \E k \in 1..3 : loc.a[k] = loc.b[k]

\* the measure of the union of the boxes [r, p], p in S, for the points of
\* the hvcall machine: the number of unit cells inside one of the boxes
BoxesMeasure(S, r) ==
  Cardinality({ c \in HvcPoints(r) : \E p \in S : \A i \in 1..Len(r) : c[i] <= p[i] })

\* the set before the last call of the hvcall machine
StoredBefore == Range(call.before.set)

\* C11: contribution(p), for a stored set S and a point p above r, is
\* hv(S united with {p}) - hv(S), which is the box volume of p minus the
\* hypervolume of the limit set {min(q, p) : q in S}, and the call changes
\* neither value() nor the stored set; with r = (0,0) and S = {(3,1), (2,2),
\* (1,3)}, contribution((4,4)) is 10.
C11_ContributionIsExclusiveVolume ==
  (mode = "hvcall" /\ call.op = "contribution") =>
    /\ call.ret = BoxesMeasure(StoredBefore \cup { call.v }, m_ref)
                    - BoxesMeasure(StoredBefore, m_ref)
    /\ call.ret = BoxesMeasure({ call.v }, m_ref)
                    - BoxesMeasure({ [ i \in 1..Len(m_ref) |-> Min2(q[i], call.v[i]) ] :
                                       q \in StoredBefore }, m_ref)
    /\ m_hv = call.before.hv /\ m_set = call.before.set
    /\ (m_ref = << 0, 0 >> /\ call.v = << 4, 4 >>
          /\ StoredBefore = { << 3, 1 >>, << 2, 2 >>, << 1, 3 >> }) => call.ret = 10

\* contribution((4,4)) has returned on r = (0,0), S = {(3,1), (2,2), (1,3)}
C11_Witness ==
  /\ mode = "hvcall" /\ call.op = "contribution"
  /\ m_ref = << 0, 0 >> /\ call.v = << 4, 4 >>
  /\ Range(m_set) = { << 3, 1 >>, << 2, 2 >>, << 1, 3 >> }
  /\ call.ret = 10

\* q >= p componentwise
WeaklyDominates(q, p) == \A i \in 1..Len(p) : q[i] >= p[i]

\* C12: insert(p), for a point p above r that is not stored, returns the
\* contribution of p to the object before the call, and value() afterwards
\* is value() before plus max(0, contribution); when a stored point weakly
\* dominates p the contribution is <= 0 and value() and the stored set stay.
C12_InsertAddsContribution ==
  (mode = "hvcall" /\ call.op = "insert" /\ call.v \notin StoredBefore) =>
    /\ call.ret = contribution([ hv |-> call.before.hv, set |-> call.before.set,
                                 ref |-> m_ref ], call.v)
    /\ m_hv = call.before.hv + (IF call.ret > 0 THEN call.ret ELSE 0)
    /\ (\E q \in StoredBefore : WeaklyDominates(q, call.v)) =>
         /\ call.ret <= 0
         /\ m_hv = call.before.hv /\ m_set = call.before.set

\* insert has returned a positive contribution for a point that pruned a
\* stored point
C12_Witness ==
  /\ mode = "hvcall" /\ call.op = "insert" /\ call.v \notin StoredBefore
  /\ call.ret > 0
  /\ m_hv = call.before.hv + call.ret
  /\ \E q \in StoredBefore : q \notin Range(m_set)

\* C13: remove(p) for a point that is not stored returns -1 and leaves
\* value() and the stored set as they were; for a stored p it erases p and
\* subtracts the contribution of p to the remaining set, which it returns.
C13_RemoveSentinel ==
  (mode = "hvcall" /\ call.op = "remove") =>
    IF call.v \notin StoredBefore
    THEN /\ call.ret = -1
         /\ m_hv = call.before.hv /\ m_set = call.before.set
    ELSE /\ Range(m_set) = StoredBefore \ { call.v }
         /\ Len(m_set) = Len(call.before.set) - 1
         /\ call.ret = BoxesMeasure(StoredBefore, m_ref)
                         - BoxesMeasure(StoredBefore \ { call.v }, m_ref)
         /\ m_hv = call.before.hv - call.ret

\* remove has returned -1 for a point that a stored point dominates, on an
\* object that stores two points
C13_Witness ==
  /\ mode = "hvcall" /\ call.op = "remove"
  /\ call.ret = -1
  /\ Len(m_set) >= 2
  /\ \E q \in Range(m_set) : WeaklyDominates(q, call.v) /\ q # call.v

\* C14 as stated: after an insert or a remove value() is not smaller than
\* before the call, and value() is never negative.
C14_ValueNondecreasing ==
  mode = "hvcall" =>
    /\ m_hv >= 0
    /\ call.op \in { "insert", "remove" } => m_hv >= call.before.hv

\* C14, amended: value() is never negative and an insert never decreases
\* it; a remove never increases it, and decreases it exactly when the
\* removed point was stored.
C14_ValueNondecreasingUnderInsert ==
  mode = "hvcall" =>
    /\ m_hv >= 0
    /\ call.op = "insert" => m_hv >= call.before.hv
    /\ call.op = "remove" =>
         /\ m_hv <= call.before.hv
         /\ m_hv < call.before.hv <=> call.v \in StoredBefore

\* a remove of a stored point has decreased value() and left it positive
C14_Witness ==
  /\ mode = "hvcall" /\ call.op = "remove"
  /\ call.v \in StoredBefore
  /\ m_hv < call.before.hv /\ m_hv > 0

\* C15 as stated: no archive member is componentwise >= a different
\* member, equal objective vectors included, and no two members have the
\* same decision vector.
C15_NoWeakDominance ==
  mode = "archive" =>
    \A i, j \in 1..Len(m_solutions) :
      i # j => /\ ~WeaklyDominates(m_solutions[i].obj, m_solutions[j].obj)
               /\ m_solutions[i].dec # m_solutions[j].dec

\* C15, amended: a member that is componentwise >= a different member has
\* the objective vector of that member and another decision vector; no two
\* members have the same decision vector.
C15_WeakDominanceOnlyByEquals ==
  mode = "archive" =>
    \A i, j \in 1..Len(m_solutions) :
      i # j =>
        /\ WeaklyDominates(m_solutions[i].obj, m_solutions[j].obj) =>
             m_solutions[i].obj = m_solutions[j].obj
        /\ m_solutions[i].dec # m_solutions[j].dec

\* the last call stored a solution whose objective vector a member already
\* had, next to that member
C15_Witness ==
  /\ mode = "archive" /\ call.op = "add" /\ call.ret
  /\ \E i, j \in 1..Len(m_solutions) :
       /\ i # j
       /\ m_solutions[i].mark
       /\ m_solutions[i].obj = m_solutions[j].obj
       /\ m_solutions[i].dec # m_solutions[j].dec

\* the tokens of a file after its leading comment lines
RECURSIVE StripComments(_)
StripComments(toks) ==
  IF toks # << >> /\ toks[1].k = "comment" THEN StripComments(Tail(toks)) ELSE toks

\* the file format of the generator: p rMNK rho M N K, p links and one bit
\* index below N per link, p tables and one number per table cell
WellFormedFile(f) ==
  /\ f.openable
  /\ LET b == StripComments(f.tokens)
     IN /\ Len(b) >= 6
        /\ b[1] = Word("p") /\ b[2] = Word("rMNK")
        /\ \A k \in 3..6 : b[k].k = "num"
        /\ LET M == b[4].n
               N == b[5].n
               K == b[6].n
               nl == N * (K + 1) * M
               nt == N * Pow2(K + 1) * M
           IN /\ M >= 1 /\ N >= 1 /\ K < N
              /\ Len(b) = 6 + 2 + nl + 2 + nt
              /\ b[7] = Word("p") /\ b[8] = Word("links")
              /\ \A k \in 9..(8 + nl) : b[k].k = "num" /\ b[k].n < N
              /\ b[9 + nl] = Word("p") /\ b[10 + nl] = Word("tables")
              /\ \A k \in (11 + nl)..Len(b) : b[k].k = "num"

\* C16: a file that misses a header or a numeric token, holds a token that
\* is no number or a link that is out of range, or cannot be opened, never
\* gets an evaluator to a runner and is never evaluated on
C16_MalformedInstanceRejected ==
  (mode = "load" /\ ~WellFormedFile(loc.file))
    => pc \notin { "handed", "evaluated", "crashed" }

\* the configurations the specification calls invalid
InvalidConfiguration(c, M) ==
  \/ c.matting_pool_size = 0
  \/ c.tournament_size = 0
  \/ (c.ref # << >> /\ Len(c.ref) # M)

\* C17: with mating-pool size 0, tournament size 0 or a reference whose
\* length is not M, nothing is evaluated and neither the tournament, nor the
\* crossover walk, nor a hypervolume insert is entered
C17_InvalidConfigurationRejected ==
  (mode = "conf" /\ InvalidConfiguration(cfg, inst.M))
    => /\ loc.evaluation = 0
       /\ pc \in { "cli", "rejected" }

\* C18: two runs with the same instance, seed, budget, operators and
\* reference end with the same anytime log and the same archive
C18_SameSeedSameRun ==
  (mode = "twin" /\ pc = "done")
    => /\ loc.a.anytime = loc.b.anytime
       /\ loc.a.solutions = loc.b.solutions

\* the largest of the differences o2[m] - o1[m]
MaxDifference(o1, o2) ==
  CHOOSE d \in { o2[m] - o1[m] : m \in 1..Len(o1) } :
    \A m \in 1..Len(o1) : o2[m] - o1[m] <= d

\* C19: the eps indicator of (s1, s2) is the largest of the differences
\* o2[m] - o1[m], whatever their signs
C19_EpsIsMaxDifference ==
  (mode = "eps" /\ pc = "done")
    => /\ call.ret = MaxDifference(loc.s1.obj, loc.s2.obj)
       /\ call.rev = MaxDifference(loc.s2.obj, loc.s1.obj)

\* C20: with crossover probability 0 the uniform crossover returns both
\* bitstrings unchanged, whatever the draws
C20_ZeroProbabilityKeepsParents ==
  (mode = "cross" /\ pc = "done" /\ cfg.m_crossover_probability = 0)
    => (loc.s1 = call.s1 /\ loc.s2 = call.s2)

\* C21: with one objective the value is the largest inserted coordinate
\* minus the reference, and no insert reads a vector past its end
C21_OneDimensionalValue ==
  (mode = "hv1" /\ loc.inserted # { })
    => /\ ~loc.oob
       /\ pc # "crashed"
       /\ \E v \in loc.inserted :
            /\ \A w \in loc.inserted : w[1] <= v[1]
            /\ m_hv = v[1] - m_ref[1]

\* every objective vector of the instance is strictly above the reference
RunAbove ==
  /\ mode = "run"
  /\ \A dec \in Decisions(inst) : \A i \in 1..inst.M : Eval(inst, dec)[i] > m_ref[i]

\* the measure of the union of the boxes [r, p], p in S, for the objective
\* vectors of the run machine: the number of unit cells inside one of the boxes
RunMeasure(S, r) ==
  Cardinality({ c \in SeqsOfLen(0..3, Len(r)) :
                  /\ \A i \in 1..Len(r) : c[i] > r[i]
                  /\ \E p \in S : \A i \in 1..Len(r) : c[i] <= p[i] })

\* C22: in a run of gsemo, pls or IBEA whose objective vectors are all
\* strictly above the reference, after every step the points stored in the
\* engine are the distinct objective vectors of the archive and value() is
\* the hypervolume of the archive; a step that inserts a solution into the
\* archive makes one engine insert of its objective vector and appends one
\* row, which carries the new value.
C22_EngineMirrorsArchive ==
  /\ [](RunAbove =>
          /\ Range(m_set) = Objectives(m_solutions)
          /\ m_hv = RunMeasure(Objectives(m_solutions), m_ref))
  /\ [][(RunAbove /\ m_solutions' # m_solutions) =>
          /\ [ hv |-> m_hv', set |-> m_set', ref |-> m_ref' ]
               = insert(m_hvo, m_solutions'[Len(m_solutions')].obj).h
          /\ Len(m_anytime') = Len(m_anytime) + 1
          /\ m_anytime'[Len(m_anytime')].hypervolume = m_hv']_vars

\* a pls run above its reference: the archive holds three solutions, two of
\* them with the same objective vector, and the engine two points
C22_Witness ==
  /\ RunAbove /\ cfg.algo = "pls"
  /\ Len(m_solutions) = 3
  /\ Cardinality(Objectives(m_solutions)) = 2
  /\ Len(m_set) = 2
  /\ Len(m_anytime) >= 3

\* the neighbour of the popped solution the scan is about to generate
NextNeighbour == Solution(inst, FlipBit(loc.original.dec, loc.i))

\* the pls run is about to generate a neighbour under the given acceptance
PlsGenerates(acceptance) ==
  /\ mode = "run" /\ cfg.algo = "pls" /\ cfg.acceptance = acceptance
  /\ pc = "pls_scan" /\ PlsScanCond

\* a member of the archive dominates s or has its decision vector
ArchiveRejects(s) ==
  \E k \in 1..Len(m_solutions) :
    Dominates(m_solutions[k].obj, s.obj) \/ m_solutions[k].dec = s.dec

\* C23: under acceptance dominating every generated neighbour n of the
\* popped solution o costs one evaluation; when n dominates o and no archive
\* member dominates n or has its decision vector, n enters the archive, the
\* engine and the frontier and a row with the new evaluation count is
\* appended; otherwise archive, engine, frontier and log stay as they are.
C23_DominatingAcceptance ==
  [][PlsGenerates("dominating") =>
       /\ loc'.evaluation = loc.evaluation + 1
       /\ IF Dominates(NextNeighbour.obj, loc.original.obj) /\ ~ArchiveRejects(NextNeighbour)
          THEN /\ NextNeighbour \in Range(m_solutions')
               /\ NextNeighbour \in Range(m_non_visited_solutions')
               /\ [ hv |-> m_hv', set |-> m_set', ref |-> m_ref' ]
                    = insert(m_hvo, NextNeighbour.obj).h
               /\ m_anytime' = Append(m_anytime, Row(loc.evaluation + 1, m_hv'))
          ELSE UNCHANGED << m_solutions, m_non_visited_solutions, m_hv, m_set, m_anytime >>]_vars

\* a finished run under acceptance dominating in which a neighbour was
\* accepted and another one was evaluated and left out
C23_Witness ==
  /\ mode = "run" /\ cfg.algo = "pls" /\ cfg.acceptance = "dominating" /\ pc = "done"
  /\ Len(m_anytime) >= 2
  /\ loc.evaluation > Len(m_anytime) - 1
  /\ \E k \in 1..Len(m_solutions) : Dominates(m_solutions[k].obj, loc.rand_solution.obj)

\* the run is under acceptance both, between the pop of a solution and the
\* end of its replay
PlsBothAt(where) ==
  /\ mode = "run" /\ cfg.algo = "pls" /\ cfg.acceptance = "both"
  /\ pc = where

\* C24: under acceptance both, during the scan of the neighbours of o a
\* neighbour enters the archive only if it dominates o (and the archive
\* takes it), and then use_remaining is false until the next pop; any other
\* neighbour is stashed as long as use_remaining holds and is not inserted.
\* A stashed neighbour is inserted only after the scan, only while
\* use_remaining holds, and by add_non_dominated alone.
C24_BothStashReplay ==
  /\ [][PlsGenerates("both") =>
          IF Dominates(NextNeighbour.obj, loc.original.obj) /\ ~ArchiveRejects(NextNeighbour)
          THEN /\ NextNeighbour \in Range(m_solutions')
               /\ ~loc'.use_remaining
               /\ loc'.remaining = loc.remaining
          ELSE /\ UNCHANGED << m_solutions, m_non_visited_solutions, m_hv, m_set, m_anytime >>
               /\ loc'.use_remaining = loc.use_remaining
               /\ loc'.remaining = IF loc.use_remaining
                                   THEN Append(loc.remaining,
                                               << NextNeighbour, loc.evaluation + 1 >>)
                                   ELSE loc.remaining]_vars
  /\ [][(PlsBothAt("pls_scan") \/ PlsBothAt("pls_replay")) /\ ~loc.use_remaining =>
          \/ pc' = "pls_loop"
          \/ ~loc'.use_remaining]_vars
  /\ [][PlsBothAt("pls_replay") =>
          /\ loc'.evaluation = loc.evaluation
          /\ m_solutions' # m_solutions =>
               /\ loc.use_remaining
               /\ loc.k <= Len(loc.remaining)
               /\ ~ArchiveRejects(loc.remaining[loc.k][1])
               /\ m_solutions'[Len(m_solutions')] = loc.remaining[loc.k][1]
          /\ (loc.use_remaining /\ loc.k <= Len(loc.remaining)
                /\ ~ArchiveRejects(loc.remaining[loc.k][1])) =>
               loc.remaining[loc.k][1] \in Range(m_solutions')]_vars

\* a stashed neighbour that does not dominate the popped solution has just
\* been inserted by the replay, after a scan that accepted nothing
C24_Witness ==
  /\ mode = "run" /\ cfg.algo = "pls" /\ cfg.acceptance = "both"
  /\ loc.use_remaining /\ loc.k >= 2 /\ loc.k - 1 <= Len(loc.remaining)
  /\ call.op = "add" /\ call.ret
  /\ call.s = loc.remaining[loc.k - 1][1]
  /\ ~Dominates(call.s.obj, loc.original.obj)
  /\ call.s \in Range(m_solutions)

\* the running m_loop of the pls run was instantiated with FirstImprov = true
FirstImprovementPhase ==
  /\ mode = "run" /\ cfg.algo = "pls"
  /\ pc \in { "pls_loop", "pls_scan", "pls_replay" }
  /\ \/ cfg.exploration = "first_improvement"
     \/ cfg.exploration = "both" /\ Len(loc.phases) = 2

\* the neighbour of the initial solution at bit 0
FirstNeighbour == Solution(inst, FlipBit(loc.rand_solution.dec, 0))

\* C25: under FirstImprovement a step that accepts a neighbour of the popped
\* solution o ends the work on o: the run is back at the head of the while
\* loop, or (acceptance both) at a replay that is skipped because
\* use_remaining is false; a skipped replay and the head of the loop
\* evaluate and insert nothing, so at most one neighbour per o is accepted
\* and, under non_dominating and dominating, none is evaluated after it.
\* With acceptance dominating, maxeval >= 1 and an initial solution whose
\* bit-0 neighbour dominates it, the first evaluation accepts that
\* neighbour and the second row of the log has evaluation = 1.
C25_FirstImprovementBreaks ==
  /\ [][(FirstImprovementPhase /\ m_anytime' # m_anytime) =>
          /\ pc \in { "pls_scan", "pls_replay" }
          /\ Len(m_anytime') = Len(m_anytime) + 1
          /\ IF cfg.acceptance = "both" /\ pc = "pls_scan"
             THEN pc' = "pls_replay" /\ ~loc'.use_remaining
             ELSE pc' = "pls_loop"]_vars
  /\ [][(FirstImprovementPhase /\ pc = "pls_replay" /\ ~loc.use_remaining) =>
          /\ pc' = "pls_loop"
          /\ loc'.evaluation = loc.evaluation
          /\ UNCHANGED << m_solutions, m_non_visited_solutions, m_hv, m_set, m_anytime >>]_vars
  /\ [][(FirstImprovementPhase /\ pc = "pls_loop") =>
          /\ loc'.evaluation = loc.evaluation
          /\ UNCHANGED << m_solutions, m_hv, m_set, m_anytime >>
          /\ pc' = "pls_scan" => /\ loc'.i = 0
                                 /\ loc'.original \in Range(m_non_visited_solutions)]_vars
  /\ [][(mode = "run" /\ cfg.algo = "pls" /\ cfg.acceptance = "dominating"
           /\ pc = "pls_scan" /\ loc.evaluation = 0 /\ cfg.maxeval >= 1
           /\ Dominates(FirstNeighbour.obj, loc.rand_solution.obj)) =>
          /\ m_solutions' = << FirstNeighbour >>
          /\ m_non_visited_solutions' = << FirstNeighbour >>
          /\ Len(m_anytime') = 2
          /\ m_anytime'[2] = Row(1, m_hv')]_vars
  /\ []((mode = "run" /\ cfg.algo = "pls" /\ cfg.acceptance = "dominating"
           /\ cfg.maxeval >= 1 /\ (loc.evaluation >= 1 \/ pc = "done")
           /\ Dominates(FirstNeighbour.obj, loc.rand_solution.obj)) =>
          /\ Len(m_anytime) >= 2
          /\ m_anytime[2].evaluation = 1)

\* a FirstImprovement run under acceptance dominating is back at the head of
\* the loop after it accepted the bit-0 neighbour of the initial solution,
\* with budget left and the bit-1 neighbour never evaluated
C25_Witness ==
  /\ FirstImprovementPhase /\ cfg.acceptance = "dominating"
  /\ pc = "pls_loop"
  /\ cfg.maxeval >= 2 /\ loc.evaluation = 1
  /\ Len(m_anytime) = 2 /\ m_anytime[2].evaluation = 1
  /\ m_solutions = << FirstNeighbour >>
  /\ loc.i = 0

\* exploration both: the FirstImprovement m_loop has returned and the
\* BestImprovement m_loop is at the head of its while loop
AtRestart ==
  /\ mode = "run" /\ cfg.algo = "pls" /\ cfg.exploration = "both"
  /\ pc = "pls_loop" /\ Len(loc.phases) = 1

\* what the code does at the restart: with budget left the frontier is
\* empty, and the BestImprovement m_loop never pops a solution
RestartFrontierEmpty ==
  /\ [](AtRestart /\ loc.evaluation < cfg.maxeval => m_non_visited_solutions = << >>)
  /\ [][AtRestart => pc' = "done"]_vars

\* C26: with exploration both the run uses FirstImprovement until the
\* frontier is empty or the budget is spent; when budget remains at the
\* restart, the BestImprovement phase has a frontier to work on, so that it
\* pops solutions and evaluates their neighbours.
C26_RestartHasFrontier ==
  AtRestart /\ loc.evaluation < cfg.maxeval => m_non_visited_solutions # << >>

\* the 0-based positions at which s1 and s2 hold each other's bits of the call
ExchangedAt(j) ==
  /\ loc.s1[j + 1] = call.s2[j + 1]
  /\ loc.s2[j + 1] = call.s1[j + 1]

\* the 0-based positions at which s1 and s2 hold their own bits of the call
KeptAt(j) ==
  /\ loc.s1[j + 1] = call.s1[j + 1]
  /\ loc.s2[j + 1] = call.s2[j + 1]

\* C27: n_point_crossover leaves s1 and s2 as they are when the draw is not
\* below the crossover probability.  When applied, the first point range
\* starts at 0, each next point is drawn in [previous point, L-1], and
\* after every draw the bits of s1 and s2 are exchanged exactly on the
\* prefix [0, p) of the last point p <= L-1: position L-1 is never
\* exchanged, and at every position the pair of bits is preserved.
C27_NPointCrossover ==
  /\ []((mode = "npoint" /\ pc = "done" /\ ~loc.applied) =>
          /\ loc.s1 = call.s1 /\ loc.s2 = call.s2)
  /\ []((mode = "npoint" /\ pc \in { "points", "done" } /\ loc.applied) =>
          /\ loc.p1 \in 0..(Len(loc.s1) - 1)
          /\ loc.i <= cfg.m_crossover_points
          /\ Len(loc.s1) = Len(call.s1) /\ Len(loc.s2) = Len(call.s2)
          /\ \A j \in 0..(Len(loc.s1) - 1) :
               /\ IF j < loc.p1 THEN ExchangedAt(j) ELSE KeptAt(j)
               /\ { loc.s1[j + 1], loc.s2[j + 1] } = { call.s1[j + 1], call.s2[j + 1] }
          /\ KeptAt(Len(loc.s1) - 1))
  /\ [][(mode = "npoint" /\ pc = "call") =>
          /\ loc'.applied => (loc'.p1 = 0 /\ loc'.i = 0)
          /\ loc'.s1 = loc.s1 /\ loc'.s2 = loc.s2
          /\ cfg.m_crossover_probability = 0 => ~loc'.applied]_vars
  /\ [][(mode = "npoint" /\ pc = "points" /\ pc' = "points") =>
          /\ loc.i < cfg.m_crossover_points
          /\ loc'.i = loc.i + 1
          /\ loc'.p2 \in loc.p1..(Len(loc.s1) - 1)
          /\ loc'.p1 = loc'.p2]_vars
  /\ [][(mode = "npoint" /\ pc = "points" /\ pc' = "done") =>
          /\ loc.i = cfg.m_crossover_points
          /\ loc' = loc]_vars

\* a crossover with two points on solutions of length 3 that differ at
\* every position has returned with the last point 2: the first two
\* positions are exchanged and the last one is not
C27_Witness ==
  /\ mode = "npoint" /\ pc = "done" /\ loc.applied
  /\ cfg.m_crossover_points = 2 /\ loc.i = 2
  /\ Len(loc.s1) = 3 /\ loc.p1 = 2
  /\ \A j \in 1..3 : call.s1[j] # call.s2[j]
  /\ ExchangedAt(0) /\ ExchangedAt(1) /\ KeptAt(2)
  /\ loc.s1 # call.s1

\* the solutions one bit flip away from a member of the archive
ArchiveNeighbours ==
  { Solution(inst, FlipBit(m_solutions[k].dec, i)) :
      k \in 1..Len(m_solutions), i \in 0..(inst.N - 1) }

\* C28: when pls::run with acceptance non_dominating and exploration
\* best_improvement has returned with the evaluation counter below
\* maxeval, add_non_dominated on the final archive rejects every solution
\* one bit flip away from a member of the archive.
C28_ParetoLocalOptimumSet ==
  (mode = "run" /\ cfg.algo = "pls" /\ pc = "done"
     /\ cfg.acceptance = "non_dominating" /\ cfg.exploration = "best_improvement"
     /\ loc.evaluation < cfg.maxeval) =>
    \A n \in ArchiveNeighbours : ~add_non_dominated(m_solutions, n).ret

\* a run that returned below its budget after it accepted neighbours, pruned
\* the archive and explored more than one solution
C28_Witness ==
  /\ mode = "run" /\ cfg.algo = "pls" /\ pc = "done"
  /\ cfg.acceptance = "non_dominating" /\ cfg.exploration = "best_improvement"
  /\ loc.evaluation < cfg.maxeval
  /\ loc.evaluation >= 6
  /\ Len(m_anytime) >= 3
  /\ Len(m_solutions) >= 2
  /\ loc.rand_solution \notin Range(m_solutions)

\* a pls run after its initialisation
PlsRunning == mode = "run" /\ cfg.algo = "pls" /\ pc # "start"

\* the solution a step of the scan or of the replay offers to the archive
Offered == IF pc = "pls_scan" THEN NextNeighbour ELSE loc.remaining[loc.k][1]

\* C29: in a pls run, between any two steps of its loops, every member of
\* the frontier is a member of the archive (same decision vector, hence
\* same objectives), no member of the frontier dominates another one, and
\* any solution add_non_dominated would accept into the archive it would
\* accept into the frontier; a step that inserts a neighbour into the
\* archive leaves it in the frontier as well.
C29_FrontierWithinArchive ==
  /\ [](PlsRunning =>
          /\ \A k \in 1..Len(m_non_visited_solutions) :
               \E j \in 1..Len(m_solutions) :
                 /\ m_solutions[j].dec = m_non_visited_solutions[k].dec
                 /\ m_solutions[j] = m_non_visited_solutions[k]
          /\ \A k, j \in 1..Len(m_non_visited_solutions) :
               /\ ~Dominates(m_non_visited_solutions[k].obj, m_non_visited_solutions[j].obj)
               /\ k # j => m_non_visited_solutions[k].dec # m_non_visited_solutions[j].dec
          /\ \A dec \in Decisions(inst) :
               add_non_dominated(m_solutions, Solution(inst, dec)).ret =>
                 add_non_dominated(m_non_visited_solutions, Solution(inst, dec)).ret)
  /\ [][(PlsRunning /\ pc \in { "pls_scan", "pls_replay" } /\ m_anytime' # m_anytime) =>
          /\ add_non_dominated(m_solutions, Offered).ret
          /\ add_non_dominated(m_non_visited_solutions, Offered).ret
          /\ m_solutions' = add_non_dominated(m_solutions, Offered).set
          /\ m_non_visited_solutions' = add_non_dominated(m_non_visited_solutions, Offered).set
          /\ Offered = m_solutions'[Len(m_solutions')]
          /\ Offered = m_non_visited_solutions'[Len(m_non_visited_solutions')]]_vars

\* an accepted neighbour has just removed from the archive a member other
\* than the popped solution, and is in the frontier
C29_Witness ==
  /\ PlsRunning /\ pc \in { "pls_scan", "pls_replay", "pls_loop" }
  /\ call.op = "add" /\ call.ret
  /\ \E k \in 1..Len(call.before) :
       /\ Dominates(call.s.obj, call.before[k].obj)
       /\ call.before[k] # loc.original
  /\ Len(m_non_visited_solutions) >= 1
  /\ call.s = m_non_visited_solutions[Len(m_non_visited_solutions)]
  /\ loc.evaluation >= 4

\* a gsemo run after its initialisation
GsemoRunning == mode = "run" /\ cfg.algo = "gsemo" /\ pc # "start"

\* C30: in a run of gsemo the archive holds at least one solution from the
\* insertion of the initial solution on, so that the parent index is drawn
\* from the nonempty range [0, |archive| - 1]; a call of add_non_dominated
\* that changes the archive ends by appending the new solution and returns
\* true, and removes only members the new solution dominates.
C30_ArchiveNeverEmpty ==
  /\ [](GsemoRunning =>
          /\ Len(m_solutions) >= 1
          /\ 0 <= Len(m_solutions) - 1
          /\ (1..Len(m_solutions)) # { })
  /\ [][(GsemoRunning /\ GsemoLoopCond) =>
          /\ call'.op = "add" /\ call'.before = m_solutions
          /\ \E k \in 1..Len(m_solutions) :
               \E mask \in Decisions(inst) :
                 call'.s = Solution(inst, FlipMask(m_solutions[k].dec, mask))
          /\ IF call'.ret
             THEN /\ m_solutions'[Len(m_solutions')] = call'.s
                  /\ \A k \in 1..Len(m_solutions) :
                       m_solutions[k] \notin Range(m_solutions') =>
                         Dominates(call'.s.obj, m_solutions[k].obj)
             ELSE m_solutions' = m_solutions]_vars
  /\ [][(mode = "run" /\ cfg.algo = "gsemo" /\ pc = "start") =>
          m_solutions' = << loc'.rand_solution >>]_vars

\* a child that dominates both members of the archive has just replaced
\* them, and the loop goes on with an archive of one solution
C30_Witness ==
  /\ GsemoRunning /\ GsemoLoopCond
  /\ call.op = "add" /\ call.ret
  /\ Len(call.before) = 2
  /\ \A k \in 1..2 : Dominates(call.s.obj, call.before[k].obj)
  /\ m_solutions = << call.s >>

====
